---- MODULE Spec2Model ----
(***************************************************************************)
(* A model of go-ncrlite: the bit-level reader and writer, the canonical   *)
(* Huffman coder, the set compressor and the incremental decompressor.     *)
(*                                                                         *)
(* A uint64 is modelled as the set of the positions (0..63) of its one     *)
(* bits, so that shifts, masks and wrap-around are exactly those of the    *)
(* 64-bit registers of the program.  Bytes and counters are naturals.      *)
(***************************************************************************)
EXTENDS Integers, Sequences, FiniteSets

(***************************************************************************)
(* 64-bit words                                                            *)
(***************************************************************************)
Zero64 == {}

One64 == {0}

Max64 == 0..63

SetMax(S) == CHOOSE m \in S : \A x \in S : x <= m

\* bs << s on a uint64 (bits shifted past position 63 are lost)
Shl(x, s) == {i + s : i \in {k \in x : k + s <= 63}}

\* bs >> s on a uint64
Shr(x, s) == {i - s : i \in {k \in x : k >= s}}

Or64(x, y) == x \cup y

Xor64(x, y) == (x \ y) \cup (y \ x)

\* x & ((1 << l) - 1)
Low(x, l) == {i \in x : i < l}

\* bits.Len64
Len64(x) == IF x = {} THEN 0 ELSE SetMax(x) + 1

RECURSIVE Iterate(_, _, _)
\* A for loop: Step is one turn of the loop on the loop's variables st, and
\* st.done says that the loop has been left.  At most n turns are taken.
Iterate(Step(_), st, n) ==
    IF n <= 0 \/ st.done THEN st
    ELSE IF n = 1 THEN Step(st)
    ELSE LET half == Iterate(Step, st, n \div 2)
         IN IF half.done THEN half ELSE Iterate(Step, half, n - (n \div 2))

\* one turn of the addition: the sum without the carries, and the carries
CarryStep(st) ==
    [x |-> Xor64(st.x, st.y), y |-> Shl(st.x \cap st.y, 1),
     done |-> st.x \cap st.y = {}]

\* x + y modulo 2^64
Add64(x, y) == Iterate(CarryStep, [x |-> x, y |-> y, done |-> y = {}], 65).x

\* x - y modulo 2^64
Sub64(x, y) == Add64(Add64(x, Max64 \ y), One64)

\* x < y on uint64
Less64(x, y) == x # y /\ SetMax(Xor64(x, y)) \in y

Pow2(n) == 2 ^ n

\* uint64(n) of a small natural
U64(n) == {i \in 0..30 : (n \div Pow2(i)) % 2 = 1}

RECURSIVE BitsValue(_, _, _)
\* the natural the bits lo..hi of x stand for
BitsValue(x, lo, hi) ==
    IF lo = hi THEN (IF lo \in x THEN Pow2(lo) ELSE 0)
    ELSE LET mid == (lo + hi) \div 2
         IN BitsValue(x, lo, mid) + BitsValue(x, mid + 1, hi)

\* int(x) of a word with no bit above 30
NatOf(x) == BitsValue(x, 0, 30)

\* byte(x)
ByteOf(x) == BitsValue(x, 0, 7)

(***************************************************************************)
(* bitWriter: a 64-bit accumulator in front of a bufio.Writer.  pend holds *)
(* the bytes handed to the bufio.Writer, sink the bytes flushed to the     *)
(* caller's io.Writer.                                                     *)
(***************************************************************************)
\* bufio's default buffer size, used by bufio.NewReader and bufio.NewWriter
BufioSize == 4096

newBitWriter == [buf |-> Zero64, offset |-> 0, err |-> "nil", pend |-> <<>>,
                 sink |-> <<>>, panic |-> FALSE,
                 werr |-> "nil", faulty |-> FALSE, room |-> 0]

\* newBitWriter(w) on a writer w that returns an error once it has taken
\* room bytes; werr is the error the bufio.Writer has recorded
newBitWriterTo(room) == [newBitWriter EXCEPT !.faulty = TRUE, !.room = room]

\* binary.LittleEndian.PutUint64
PutUint64(x) == [i \in 1..8 |-> ByteOf(Shr(x, 8 * (i - 1)))] \o <<>>

\* the number of the n bytes offered that the caller's io.Writer takes
SinkTakes(w, n) ==
    IF ~w.faulty THEN n
    ELSE IF w.room - Len(w.sink) < n
    THEN (IF w.room > Len(w.sink) THEN w.room - Len(w.sink) ELSE 0)
    ELSE n

\* bufio.Writer.Flush once the io.Writer has taken n of the pending bytes
Flushed(w, n) ==
    IF n < Len(w.pend)
    THEN [w EXCEPT !.sink = w.sink \o SubSeq(w.pend, 1, n),
                   !.pend = SubSeq(w.pend, n + 1, Len(w.pend)),
                   !.werr = "sink"]
    ELSE [w EXCEPT !.sink = w.sink \o w.pend, !.pend = <<>>]

\* bufio.Writer.Flush: the pending bytes reach the caller's io.Writer
BufioFlush(w) ==
    IF w.werr # "nil" \/ w.pend = <<>> THEN w ELSE Flushed(w, SinkTakes(w, Len(w.pend)))

\* the end of bufio.Writer.Write: what is left of p is copied, unless an
\* error is recorded
BufioCopy(w, p) == IF w.werr # "nil" THEN w ELSE [w EXCEPT !.pend = w.pend \o p]

\* bufio.Writer.Write(p) for a p shorter than the buffer: when p does not
\* fit, the buffer is filled up and flushed first
BufioWrite(w, p) ==
    IF w.werr = "nil" /\ Len(p) > BufioSize - Len(w.pend)
    THEN BufioCopy(BufioFlush([w EXCEPT !.pend =
                                  w.pend \o SubSeq(p, 1, BufioSize - Len(w.pend))]),
                   SubSeq(p, BufioSize - Len(w.pend) + 1, Len(p)))
    ELSE BufioCopy(w, p)

\* bufio.Writer.WriteByte
BufioWriteByte(w, c) ==
    IF w.werr # "nil" THEN w
    ELSE IF BufioSize - Len(w.pend) <= 0
    THEN BufioCopy(BufioFlush(w), <<c>>)
    ELSE [w EXCEPT !.pend = Append(w.pend, c)]

\* an end of WriteBits that keeps all of bs in the accumulator
WroteWordWhole(w1, bs, l) ==
    IF w1.werr # "nil" THEN [w1 EXCEPT !.err = w1.werr]
    ELSE [w1 EXCEPT !.buf = bs, !.offset = l - (64 - w1.offset)]

\* the end of WriteBits, w1 being the writer after w.w.Write(buf[:])
WroteWord(w1, bs, l) ==
    IF w1.werr # "nil" THEN [w1 EXCEPT !.err = w1.werr]
    ELSE [w1 EXCEPT !.buf = Shr(bs, 64 - w1.offset), !.offset = l - (64 - w1.offset)]

\* WriteBits with w.offset above 64, after w.w.Write(buf[:]): bs >> l2 panics
Overshot(w1) ==
    IF w1.werr # "nil" THEN [w1 EXCEPT !.err = w1.werr] ELSE [w1 EXCEPT !.panic = TRUE]

\* WriteBits once w.buf |= (bs << w.offset) is done
Spliced(w, bs, l) ==
    IF w.offset + l < 64 THEN [w EXCEPT !.offset = w.offset + l]
    ELSE WroteWord(BufioWrite(w, PutUint64(w.buf)), bs, l)

\* bitWriter.WriteBits; a negative shift count (w.offset, or l2 once w.offset
\* is above 64) is a run-time panic
WriteBits(w, bs, l) ==
    IF w.panic \/ w.err # "nil" THEN w
    ELSE IF w.offset < 0 THEN [w EXCEPT !.panic = TRUE]
    ELSE IF w.offset + l >= 64 /\ w.offset > 64
    THEN Overshot(BufioWrite(w, PutUint64(w.buf)))
    ELSE Spliced([w EXCEPT !.buf = Or64(w.buf, Shl(bs, w.offset))], bs, l)

\* one turn of the loop of Close after its WriteByte
ByteWritten(w1) ==
    [w1 EXCEPT !.err = w1.werr, !.buf = Shr(w1.buf, 8), !.offset = w1.offset - 8]

RECURSIVE CloseLoop(_)
\* the loop of Close: one byte of the accumulator at a time
CloseLoop(w) ==
    IF ~w.panic /\ w.err = "nil" /\ w.offset > 0
    THEN CloseLoop(ByteWritten(BufioWriteByte(w, ByteOf(w.buf))))
    ELSE w

\* an end of Close that does not keep what Flush returns
FlushQuiet(w) == IF w.err # "nil" THEN w ELSE BufioFlush(w)

\* the end of Close: w.err = w.w.Flush()
Flush(w) == IF w.err # "nil" THEN w ELSE [BufioFlush(w) EXCEPT !.err = BufioFlush(w).werr]

\* a Close that leaves the accumulator's bytes behind
CloseNoDrain(w) == Flush(w)

\* bitWriter.Close: the accumulator's bytes, then the bufio.Writer's Flush
Close(w) == IF w.panic \/ w.err # "nil" THEN w ELSE Flush(CloseLoop(w))

RECURSIVE WriteUvarint(_, _)
\* bitWriter.WriteUvarint
WriteUvarint(w, x) ==
    IF w.panic THEN w
    ELSE IF Len64(x) > 7
    THEN WriteUvarint(WriteBits(w, Or64(Low(x, 8), {7}), 8), Shr(x, 7))
    ELSE WriteBits(w, Low(x, 8), 8)

(***************************************************************************)
(* Huffman code construction                                               *)
(***************************************************************************)
\* an order on nodes that looks at the depth alone
LessByDepth(a, b) == a.depth < b.depth

\* htHeap.Less on two nodes
Less(a, b) == IF a.count = b.count THEN a.depth < b.depth ELSE a.count < b.count

\* htHeap.Swap; positions are counted from 0 as in the source
Swap(h, i, j) == [h EXCEPT ![i + 1] = h[j + 1], ![j + 1] = h[i + 1]]

\* the child of i that container/heap's down compares with i: the smaller one
SmallerChild(h, i, n) ==
    IF 2 * i + 2 < n /\ Less(h[2 * i + 3], h[2 * i + 2]) THEN 2 * i + 2 ELSE 2 * i + 1

RECURSIVE HeapDown(_, _, _)
RECURSIVE HeapDownTo(_, _, _, _)
\* container/heap's down(h, i, n)
HeapDown(h, i, n) ==
    IF 2 * i + 1 >= n THEN h ELSE HeapDownTo(h, i, SmallerChild(h, i, n), n)

\* the end of one turn of down's loop, j being the smaller child of i
HeapDownTo(h, i, j, n) ==
    IF ~Less(h[j + 1], h[i + 1]) THEN h ELSE HeapDown(Swap(h, i, j), j, n)

\* the parent of position j in the heap
Parent(j) == IF j = 0 THEN 0 ELSE (j - 1) \div 2

RECURSIVE HeapUp(_, _)
\* container/heap's up(h, j)
HeapUp(h, j) ==
    IF Parent(j) = j \/ ~Less(h[j + 1], h[Parent(j) + 1]) THEN h
    ELSE HeapUp(Swap(h, Parent(j), j), Parent(j))

\* one turn of heap.Init's loop: down(h, i, n) for i = n/2 - 1 down to 0
HeapInitStep(st) ==
    [h |-> HeapDown(st.h, st.i, Len(st.h)), i |-> st.i - 1, done |-> st.i = 0]

\* heap.Init
HeapInit(h) ==
    Iterate(HeapInitStep,
            [h |-> h, i |-> (Len(h) \div 2) - 1, done |-> Len(h) < 2], Len(h)).h

\* htHeap.Pop after heap.Pop's swap and down: the last node is taken off
Popped(h, n) == [item |-> h[n + 1], heap |-> SubSeq(h, 1, n)]

\* heap.Pop: the smallest node and the heap without it
HeapPop(h) == Popped(HeapDown(Swap(h, 0, Len(h) - 1), 0, Len(h) - 1), Len(h) - 1)

\* heap.Push
HeapPush(h, x) == HeapUp(Append(h, x), Len(h))

\* the node that combines the subtrees n1 and n2
Joined(n1, n2) ==
    [value |-> 0, count |-> n1.count + n2.count,
     depth |-> (IF n1.depth > n2.depth THEN n1.depth ELSE n2.depth) + 1,
     children |-> <<n1, n2>>]

\* the end of one turn of the combining loop: n1 was popped first, p2 second
CombineWith(n1, p2) ==
    [h |-> HeapPush(p2.heap, Joined(n1, p2.item)), done |-> Len(p2.heap) = 0]

\* the second pop of one turn of the combining loop
CombineNext(p1) == CombineWith(p1.item, HeapPop(p1.heap))

\* one turn of the loop of buildHuffmanCode that combines the two subtrees
\* with the smallest count
Combine(st) == CombineNext(HeapPop(st.h))

\* the root of the Huffman tree built from the heap h
BuildTree(h) == Iterate(Combine, [h |-> h, done |-> Len(h) <= 1], Len(h)).h[1]

RECURSIVE LeafDepths(_, _)
\* the pairs <<value, depth>> of the leaves below node n
LeafDepths(n, d) ==
    IF n.children # <<>>
    THEN LeafDepths(n.children[1], (d + 1) % 256)
            \cup LeafDepths(n.children[2], (d + 1) % 256)
    ELSE {<<n.value, d>>}

\* bits.Reverse64
Reverse64(x) == {63 - i : i \in x}

\* the order of slices.SortFunc in canonicalHuffmanCode: by (length, symbol)
Before(cl, u, v) == cl[u + 1] < cl[v + 1] \/ (cl[u + 1] = cl[v + 1] /\ u < v)

\* the number of symbols that come before each symbol in that order
Ranks(cl) ==
    [v \in 1..Len(cl) |->
        Cardinality({u \in 0..(Len(cl) - 1) : Before(cl, u, v - 1)})] \o <<>>

\* the symbols in the order their ranks give
Ranked(rank) ==
    [i \in 1..Len(rank) |->
        CHOOSE v \in 0..(Len(rank) - 1) : rank[v + 1] = i - 1] \o <<>>

\* the symbols 0..n-1 ordered by (length, symbol), as slices.SortFunc leaves them
SortByLength(cl) == Ranked(Ranks(cl))

\* code <<= l - prevLength
Widened(code, l, prevLength) ==
    IF l # prevLength THEN Shl(code, (l - prevLength) % 256) ELSE code

\* the entry of symbol v of length l, without code++
AssignedSame(st, v, l, code) ==
    [st EXCEPT !.ret[v + 1] = [code |-> Shr(Reverse64(code), (64 - l) % 256),
                               length |-> l],
               !.prevLength = l,
               !.code = code,
               !.i = st.i + 1,
               !.done = st.i + 1 >= Len(st.vls)]

\* the entry of symbol v of length l, and code++
Assigned(st, v, l, code) ==
    [st EXCEPT !.ret[v + 1] = [code |-> Shr(Reverse64(code), (64 - l) % 256),
                               length |-> l],
               !.prevLength = l,
               !.code = Add64(code, One64),
               !.i = st.i + 1,
               !.done = st.i + 1 >= Len(st.vls)]

\* one turn of the loop of canonicalHuffmanCode that hands out the codes in
\* sorted order
CanonStep(st) ==
    Assigned(st, st.vls[st.i + 1], st.cl[st.vls[st.i + 1] + 1],
             Widened(st.code, st.cl[st.vls[st.i + 1] + 1], st.prevLength))

\* the canonical code of a vector of code lengths; symbol s is entry s + 1
canonicalHuffmanCode(codeLengths) ==
    Iterate(CanonStep,
            [cl |-> codeLengths, vls |-> SortByLength(codeLengths),
             ret |-> [s \in 1..Len(codeLengths) |->
                         [code |-> Zero64, length |-> 0]] \o <<>>,
             prevLength |-> 0, code |-> Zero64, i |-> 0,
             done |-> Len(codeLengths) = 0],
            Len(codeLengths)).ret

\* the heap buildHuffmanCode starts from: one leaf for every symbol
Leaves(freq) ==
    [i \in 1..Len(freq) |->
        [value |-> i - 1, count |-> freq[i], depth |-> 0, children |-> <<>>]] \o <<>>

\* the depth of the parent of every symbol's leaf
DepthsOfParent(ds, n) == [s \in 1..n |-> (CHOOSE q \in ds : q[1] = s - 1)[2] - 1] \o <<>>

\* the code length of every symbol, from the leaves' depths
DepthsOf(ds, n) == [s \in 1..n |-> (CHOOSE q \in ds : q[1] = s - 1)[2]] \o <<>>

\* the code lengths the Huffman tree of freq gives
huffmanLengths(freq) ==
    DepthsOf(LeafDepths(BuildTree(HeapInit(Leaves(freq))), 0), Len(freq))

\* buildHuffmanCode: the codebook for a frequency table
buildHuffmanCode(freq) == canonicalHuffmanCode(huffmanLengths(freq))

\* one turn of the inner loop of Pack: the pair "0, sign"
PackPair(st) ==
    [st EXCEPT !.bw = WriteBits(WriteBits(st.bw, Zero64, 1), U64(st.sign), 1),
               !.j = st.j + 1, !.done = st.j + 1 >= st.n]

\* the inner loop of Pack: absDiff pairs "0, sign"
PackPairs(bw, sign, n) ==
    Iterate(PackPair, [bw |-> bw, sign |-> sign, n |-> n, j |-> 0, done |-> n <= 0],
            n).bw

\* a turn of the outer loop of Pack that writes every difference as a rise
PackChangeUp(st, l, prev) ==
    [st EXCEPT !.bw = WriteBits(PackPairs(st.bw, 1,
                                          IF l < prev THEN prev - l ELSE l - prev),
                                One64, 1),
               !.i = st.i + 1,
               !.done = st.i + 1 >= Len(st.h)]

\* one turn of the outer loop of Pack, from length prev to length l
PackChange(st, l, prev) ==
    [st EXCEPT !.bw = WriteBits(PackPairs(st.bw, IF l < prev THEN 0 ELSE 1,
                                          IF l < prev THEN prev - l ELSE l - prev),
                                One64, 1),
               !.i = st.i + 1,
               !.done = st.i + 1 >= Len(st.h)]

\* one turn of the outer loop of Pack
PackStep(st) == PackChange(st, st.h[st.i + 1].length, st.h[st.i].length)

\* htCode.Pack: the codebook header
Pack(h, bw) ==
    Iterate(PackStep,
            [h |-> h, i |-> 1, done |-> Len(h) <= 1,
             bw |-> WriteBits(WriteBits(bw, U64(Len(h) - 1), 6), U64(h[1].length), 6)],
            Len(h)).bw

(***************************************************************************)
(* Compressor                                                              *)
(***************************************************************************)
\* the deltas of a slice: ds[0] = set[0] + 1, ds[i+1] = set[i+1] - set[i]
Deltas(set) ==
    [i \in 1..Len(set) |->
        IF i = 1 THEN Add64(set[1], One64) ELSE Sub64(set[i], set[i - 1])] \o <<>>

\* a check that lets a descent through, unless it makes a delta of zero
UnsortedLax(set) ==
    \/ \E i \in 1..(Len(set) - 1) : set[i] = set[i + 1]
    \/ Len(set) >= 2 /\ set[1] = Max64

\* the check of CompressSorted's delta loop: some set[i+1] <= set[i]
Unsorted(set) == \E i \in 1..(Len(set) - 1) : ~Less64(set[i], set[i + 1])

\* the bitlength of a delta: bits.Len64(d) - 1
BitLen(d) == Len64(d) - 1

\* the counts of the bitlengths of the deltas
Freq(ds) ==
    [b \in 1..(SetMax({BitLen(ds[i]) : i \in 1..Len(ds)}) + 1) |->
        Cardinality({i \in 1..Len(ds) : BitLen(ds[i]) = b - 1})] \o <<>>

\* the codeword e of the bitlength bn of delta d, then d's bits below the top
PackBits(st, d, bn, e) ==
    [st EXCEPT !.bw = WriteBits(WriteBits(st.bw, e.code, e.length),
                                Xor64(d, {bn}), bn),
               !.i = st.i + 1,
               !.done = st.i + 1 >= Len(st.ds)]

\* one turn of the loop that packs the deltas
PackDelta(st) ==
    PackBits(st, st.ds[st.i + 1], BitLen(st.ds[st.i + 1]),
             st.code[BitLen(st.ds[st.i + 1]) + 1])

\* the size, the codebook header and the deltas ds under the codebook code,
\* written to bw
PackDeltasTo(bw, ds, code) ==
    Iterate(PackDelta,
            [ds |-> ds, code |-> code, i |-> 0, done |-> FALSE,
             bw |-> Pack(code, WriteUvarint(bw, U64(Len(ds))))],
            Len(ds)).bw

\* the same, written to a writer in front of an io.Writer that never fails
PackDeltas(ds, code) == PackDeltasTo(newBitWriter, ds, code)

\* the codebook of the deltas ds, then the stream
CompressDeltasTo(bw, ds) == PackDeltasTo(bw, ds, buildHuffmanCode(Freq(ds)))

CompressDeltas(ds) == CompressDeltasTo(newBitWriter, ds)

\* CompressSorted for two or more elements, up to the last delta
CompressPayloadTo(bw, set) == CompressDeltasTo(bw, Deltas(set))

CompressPayload(set) == CompressPayloadTo(newBitWriter, set)

\* an endmarker of eight one bits
WriteOnes(bw) == WriteBits(bw, U64(255), 8)

\* no endmarker at all
WriteNoEndmarker(bw) == bw

\* the endmarker written after the last delta
WriteEndmarker(bw) == WriteBits(bw, U64(170), 8)

\* CompressSorted(w, set), bw being newBitWriter(w): the writer it leaves
\* behind; the error it returns is that writer's err
CompressSortedTo(bw, set) ==
    IF Len(set) = 0 THEN Close(WriteUvarint(bw, Zero64))
    ELSE IF Len(set) = 1
    THEN Close(WriteUvarint(WriteUvarint(bw, One64), set[1]))
    ELSE IF Unsorted(set)
    THEN [WriteUvarint(bw, U64(Len(set))) EXCEPT !.panic = TRUE]
    ELSE Close(WriteEndmarker(CompressPayloadTo(bw, set)))

\* CompressSorted on an io.Writer that never fails (sink: the bytes written
\* to it)
CompressSorted(set) == CompressSortedTo(newBitWriter, set)

\* a sort that leaves the slice as it is
SortSliceNot(s) == s

\* the place of each element of s in the sorted slice
SortRanks(s) ==
    [j \in 1..Len(s) |->
        Cardinality({i \in 1..Len(s) :
            Less64(s[i], s[j]) \/ (s[i] = s[j] /\ i < j)})] \o <<>>

\* the elements of s in the order their ranks give
SortedBy(s, rank) ==
    [k \in 1..Len(s) |-> s[CHOOSE j \in 1..Len(s) : rank[j] = k - 1]] \o <<>>

\* slices.Sort
SortSlice(s) == SortedBy(s, SortRanks(s))

\* Compress: slices.Sort, then CompressSorted
Compress(s) == CompressSorted(SortSlice(s))

(***************************************************************************)
(* bitReader: a 64-bit accumulator behind a bufio.Reader.  The source is   *)
(* the byte sequence data, handed out by the underlying io.Reader in       *)
(* pieces of at most chunk bytes; pos counts the bytes taken from the      *)
(* bufio.Reader and w marks the end of the piece it holds.                 *)
(***************************************************************************)
Min(a, b) == IF a < b THEN a ELSE b

\* newBitReader(r); fault is the error r returns when it has no bytes to give
newBitReader(data, chunk) ==
    [buf |-> Zero64, size |-> 0, err |-> "nil",
     data |-> data, chunk |-> chunk, pos |-> 0, w |-> 0, fault |-> "EOF"]

\* the end of the piece the bufio.Reader holds once Read has been called: a
\* new piece is asked for only when the one it holds is used up
Refilled(r) ==
    IF r.pos = r.w
    THEN r.pos + Min(Len(r.data) - r.pos, Min(r.chunk, BufioSize))
    ELSE r.w

\* the k bytes Read copies out of the piece that ends at w1
Taken(r, k, w1) ==
    [n |-> k,
     bytes |-> SubSeq(r.data, r.pos + 1, r.pos + k),
     br |-> [r EXCEPT !.pos = r.pos + k, !.w = w1]]

\* bufio.Reader.Read(p) with len(p) = n: at most one read of the underlying
\* reader, and only when the buffer is empty; then a copy of what is there
BufioRead(r, n) == Taken(r, Min(n, Refilled(r) - r.pos), Refilled(r))

RECURSIVE LittleEndian(_, _)
\* binary.LittleEndian.Uint64 / Uint32 of a zero-padded scratch buffer
LittleEndian(bytes, i) ==
    IF i > Len(bytes) THEN Zero64
    ELSE Or64(Shl(U64(bytes[i]), 8 * (i - 1)), LittleEndian(bytes, i + 1))

\* bitReader.readBits: assumes l <= size; size is a byte and wraps
readBits(r, l) ==
    [val |-> Low(r.buf, l),
     br |-> [r EXCEPT !.size = (r.size - l) % 256, !.buf = Shr(r.buf, l)]]

\* the end of fill, rd being what the bufio.Reader's Read returned
Filled(rd) ==
    IF rd.n = 0
    THEN [ok |-> FALSE, br |-> [rd.br EXCEPT !.err = rd.br.fault]]
    ELSE [ok |-> TRUE,
          br |-> [rd.br EXCEPT !.buf = LittleEndian(rd.bytes, 1),
                               !.size = (8 * rd.n) % 256]]

\* bitReader.fill: replace the accumulator by the next (up to) 8 bytes
fill(r) == Filled(BufioRead(r, 8))

\* the end of ReadBit: the lowest bit of the accumulator
TakeBit(r) ==
    [val |-> IF 0 \in r.buf THEN 1 ELSE 0,
     br |-> [r EXCEPT !.size = (r.size - 1) % 256, !.buf = Shr(r.buf, 1)]]

\* ReadBit after its call of fill
TakeFilledBit(f) == IF ~f.ok THEN [val |-> 0, br |-> f.br] ELSE TakeBit(f.br)

\* bitReader.ReadBit
ReadBit(r) == IF r.size = 0 THEN TakeFilledBit(fill(r)) ELSE TakeBit(r)

RECURSIVE PeekByte(_)
RECURSIVE Peeked(_, _)
\* the next byte that will be read, without consuming it
PeekByte(r) ==
    IF 8 > r.size THEN Peeked(r, BufioRead(r, 4))
    ELSE [val |-> ByteOf(r.buf), br |-> r]

\* one turn of the loop of PeekByte, rd being what Read returned
Peeked(r, rd) ==
    IF rd.n = 0 THEN [val |-> 0, br |-> [rd.br EXCEPT !.err = rd.br.fault]]
    ELSE PeekByte([rd.br EXCEPT
            !.buf = Or64(r.buf, Shl(LittleEndian(rd.bytes, 1), r.size)),
            !.size = (r.size + 8 * rd.n) % 256])

\* ret |= r.readBits(l-read) << read
JoinBits(ret, r2, read) == [val |-> Or64(ret, Shl(r2.val, read)), br |-> r2.br]

\* ReadBits after its call of fill
ReadFilledBits(ret, f, read, l) ==
    IF ~f.ok THEN [val |-> Zero64, br |-> f.br]
    ELSE JoinBits(ret, readBits(f.br, l - read), read)

\* ReadBits after its first readBits, which took read bits
ReadMoreBits(r1, read, l) ==
    IF read = l THEN r1 ELSE ReadFilledBits(r1.val, fill(r1.br), read, l)

\* Read l bits from r. Assumes l <= 64.
ReadBits(r, l) == ReadMoreBits(readBits(r, Min(l, r.size)), Min(l, r.size), l)

\* r.size -= l; r.buf >>= l
Drop(r, l) == [r EXCEPT !.size = (r.size - l) % 256, !.buf = Shr(r.buf, l)]

\* SkipBits after its call of fill
SkipFilledBits(f, rest) == IF ~f.ok THEN f.br ELSE Drop(f.br, rest)

\* Read l bits from r, but do not return them.
SkipBits(r, l) ==
    IF Min(l, r.size) # r.size THEN Drop(r, l)
    ELSE SkipFilledBits(fill(r), l - Min(l, r.size))

\* an end of the turn that never goes on to the next group of 7 bits
UvarintStop(more, s, ret) == [val |-> ret, br |-> more.br]

RECURSIVE ReadUvarintFrom(_, _, _)
\* the end of one turn of ReadUvarint's loop: the continuation bit
UvarintMore(more, s, ret) ==
    IF more.val = Zero64 \/ s + 7 > 63 THEN [val |-> ret, br |-> more.br]
    ELSE ReadUvarintFrom(more.br, s + 7, ret)

\* one turn of ReadUvarint's loop after its ReadBits(7); at s = 63 the error
\* is recorded only when one is recorded already
UvarintGroup(x, s, ret) ==
    IF s = 63 /\ Len64(x.val) > 1
    THEN [val |-> Zero64,
          br |-> IF x.br.err # "nil"
                 THEN [x.br EXCEPT !.err = "Uvarint overflow"] ELSE x.br]
    ELSE UvarintMore(ReadBits(x.br, 1), s, Or64(ret, Shl(x.val, s)))

\* the loop of ReadUvarint from shift s on, ret being what was read so far
ReadUvarintFrom(r, s, ret) == UvarintGroup(ReadBits(r, 7), s, ret)

\* bitReader.ReadUvarint
ReadUvarint(r) == ReadUvarintFrom(r, 0, Zero64)

(***************************************************************************)
(* The variant of the bit-level layer with the Elias-delta coding.  Its     *)
(* writer is the writer above; its reader counts the bits it holds in an   *)
(* int, which does not wrap, and a negative shift count is a panic.        *)
(***************************************************************************)
\* newBitReader of the variant
newBitReaderInt(data, chunk) ==
    [buf |-> Zero64, size |-> 0, err |-> "nil",
     data |-> data, chunk |-> chunk, pos |-> 0, w |-> 0, panic |-> FALSE]

\* bitReader.readBits of the variant, with l and size of type int
readBitsInt(r, l) ==
    IF l < 0 THEN [val |-> Zero64, br |-> [r EXCEPT !.panic = TRUE]]
    ELSE [val |-> Low(r.buf, l),
          br |-> [r EXCEPT !.size = r.size - l, !.buf = Shr(r.buf, l)]]

\* ReadBits of the variant after its Read of 8 bytes
ReadFilledInt(ret, rd, read, l) ==
    IF rd.n = 0 THEN [val |-> Zero64, br |-> [rd.br EXCEPT !.err = "EOF"]]
    ELSE JoinBits(ret,
                  readBitsInt([rd.br EXCEPT !.buf = LittleEndian(rd.bytes, 1),
                                            !.size = 8 * rd.n],
                              l - read),
                  read)

\* ReadBits of the variant after its first readBits, which took read bits
ReadMoreInt(r1, read, l) ==
    IF r1.br.panic \/ read = l THEN r1
    ELSE ReadFilledInt(r1.val, BufioRead(r1.br, 8), read, l)

\* bitReader.ReadBits of the variant
ReadBitsInt(r, l) ==
    IF r.panic THEN [val |-> Zero64, br |-> r]
    ELSE ReadMoreInt(readBitsInt(r, Min(l, r.size)), Min(l, r.size), l)

\* the word WriteEliasDelta writes for x + 1 = x1, of N + 1 bits, N + 1
\* being of L + 1 bits
EliasWord(x1, N, L) ==
    Or64(Or64(Shl(Xor64(U64(N + 1), {L}), L + 1),
              Shl(Xor64(x1, {N}), 2 * L + 1)),
         {L})

\* WriteEliasDelta once N is known
EliasWrite(w, x1, N, L) == WriteBits(w, EliasWord(x1, N, L), 2 * L + 1 + N)

\* bitWriter.WriteEliasDelta, for x + 1 < 2^64
WriteEliasDelta(w, x) ==
    EliasWrite(w, Add64(x, One64), Len64(Add64(x, One64)) - 1,
               Len64(U64(Len64(Add64(x, One64)))) - 1)

\* the end of ReadEliasDelta: the N bits below the top bit of x + 1
EliasValue(v, N) == [val |-> Sub64(Or64(v.val, {N}), One64), br |-> v.br]

\* ReadEliasDelta once the L bits below the top bit of N + 1 are read
EliasLength(n, L) ==
    IF n.br.panic THEN n
    ELSE IF Len64(Sub64(Or64(n.val, {L}), One64)) > 6
    THEN [val |-> Max64, br |-> n.br]
    ELSE EliasValue(ReadBitsInt(n.br, NatOf(Sub64(Or64(n.val, {L}), One64))),
                    NatOf(Sub64(Or64(n.val, {L}), One64)))

RECURSIVE EliasPrefix(_, _)
\* one turn of the loop of ReadEliasDelta that counts the zero bits
EliasPrefixBit(bit, L) ==
    IF bit.br.panic THEN bit
    ELSE IF bit.val # Zero64 THEN EliasLength(ReadBitsInt(bit.br, L), L)
    ELSE IF L + 1 > 5 THEN [val |-> Max64, br |-> bit.br]
    ELSE EliasPrefix(bit.br, L + 1)

\* the loop of ReadEliasDelta from L zero bits on
EliasPrefix(r, L) == EliasPrefixBit(ReadBitsInt(r, 1), L)

\* bitReader.ReadEliasDelta
ReadEliasDelta(r) == EliasPrefix(r, 0)

(***************************************************************************)
(* Codebook header and prefix table                                        *)
(***************************************************************************)
\* next = 1: the next code length is the last one plus change
NextLength(st, next, h1) ==
    [st EXCEPT !.br = next.br, !.h = h1, !.change = 0, !.waitingFor = 0,
               !.err = IF Len(h1) = st.n THEN next.br.err ELSE "nil",
               !.done = Len(h1) = st.n]

\* a check that rejects a run once it is longer than n - 1
ChangeLengthStrict(st, up) ==
    [st EXCEPT !.br = up.br,
               !.change = IF up.val = 1 THEN st.change + 1 ELSE st.change - 1,
               !.waitingFor = st.waitingFor + 1,
               !.h = IF st.waitingFor + 1 > st.n - 1 THEN <<>> ELSE st.h,
               !.err = IF st.waitingFor + 1 > st.n - 1
                       THEN "invalid codelength in Huffman table" ELSE "nil",
               !.done = st.waitingFor + 1 > st.n - 1]

\* next = 0: the bit up moves change by one
ChangeLength(st, up) ==
    [st EXCEPT !.br = up.br,
               !.change = IF up.val = 1 THEN st.change + 1 ELSE st.change - 1,
               !.waitingFor = st.waitingFor + 1,
               !.h = IF st.waitingFor + 1 > st.n THEN <<>> ELSE st.h,
               !.err = IF st.waitingFor + 1 > st.n
                       THEN "invalid codelength in Huffman table" ELSE "nil",
               !.done = st.waitingFor + 1 > st.n]

\* one turn of the loop of unpackCodeLengths after its first ReadBit
CodeLengthBit(st, next) ==
    IF next.val = 1
    THEN NextLength(st, next, Append(st.h, (st.h[Len(st.h)] + st.change) % 256))
    ELSE ChangeLength(st, ReadBit(next.br))

\* one turn of the loop of unpackCodeLengths; h holds the lengths read so far
CodeLengthStep(st) == CodeLengthBit(st, ReadBit(st.br))

\* what unpackCodeLengths returns when its loop is left
CodeLengthsRead(st) == [h |-> st.h, br |-> st.br, err |-> st.err]

\* unpackCodeLengths once n and h[0] are read
CodeLengthsFrom(size, h0) ==
    IF size = 1 THEN [h |-> <<NatOf(h0.val)>>, br |-> h0.br, err |-> h0.br.err]
    ELSE CodeLengthsRead(
            Iterate(CodeLengthStep,
                    [br |-> h0.br, n |-> size, h |-> <<NatOf(h0.val)>>,
                     change |-> 0, waitingFor |-> 0, err |-> "nil", done |-> FALSE],
                    size * (size + 2)))

\* unpackCodeLengths once n is read
CodeLengthsOf(n) == CodeLengthsFrom(NatOf(n.val) + 1, ReadBits(n.br, 6))

\* unpackCodeLengths: the code lengths (<<>> for nil), the reader and the error
unpackCodeLengths(r) == CodeLengthsOf(ReadBits(r, 6))

\* The binary tree of unpackHuffmanTree: the htNodes in the order they are
\* made, the root first.  A child is the place of a node in that sequence
\* and 0 stands for nil.
EmptyNode == [children |-> <<0, 0>>, value |-> 0]

\* code & 1
LowBit(code) == IF 0 \in code THEN 1 ELSE 0

\* one turn of the loop that walks down the existing tree along code
WalkStep(st) ==
    LET next == st.tree[st.node].children[LowBit(st.code) + 1]
    IN IF next = 0 THEN [st EXCEPT !.done = TRUE]
       ELSE [st EXCEPT !.node = next, !.code = Shr(st.code, 1), !.d = st.d + 1]

\* one turn of the loop that creates the new nodes
GrowStep(st) ==
    LET new == Len(st.tree) + 1
    IN [st EXCEPT !.tree = Append([st.tree EXCEPT
                                      ![st.node].children[LowBit(st.code) + 1] = new],
                                  EmptyNode),
                  !.node = new,
                  !.code = Shr(st.code, 1),
                  !.d = st.d + 1,
                  !.done = st.d + 1 >= st.length]

\* the walk down the tree has stopped at depth d: what is left to create
Missing(at) == [at EXCEPT !.done = at.d >= at.length]

\* the end of one turn of the inserting loop: the leaf gets its value
SetLeaf(st, new) ==
    [st EXCEPT !.tree = [new.tree EXCEPT ![new.node].value = st.bn],
               !.bn = st.bn + 1,
               !.done = st.bn + 1 >= Len(st.codebook)]

\* one turn of the loop that inserts the codeword of symbol bn into the tree
InsertCode(st) ==
    SetLeaf(st,
            Iterate(GrowStep,
                    Missing(Iterate(WalkStep,
                                    [tree |-> st.tree, node |-> 1,
                                     code |-> st.codebook[st.bn + 1].code, d |-> 0,
                                     length |-> st.codebook[st.bn + 1].length,
                                     done |-> FALSE],
                                    Len(st.tree))),
                    st.codebook[st.bn + 1].length))

\* the binary tree built from a codebook
InsertCodes(codebook) ==
    Iterate(InsertCode, [tree |-> <<EmptyNode>>, codebook |-> codebook, bn |-> 0,
                         done |-> Len(codebook) = 0], Len(codebook)).tree

RECURSIVE LutWalk(_, _, _, _)
\* follow at most 8 bits of code down from node
LutWalk(tree, node, code, skip) ==
    LET next == IF skip < 8 THEN tree[node].children[((code \div Pow2(skip)) % 2) + 1]
                ELSE 0
    IN IF next # 0 THEN LutWalk(tree, next, code, skip + 1)
       ELSE [node |-> node, skip |-> skip]

EmptyEntry == [value |-> 0, skip |-> 0, next |-> 0]

\* One turn of the loop over todo of unpackHuffmanTree: the 256 entries of the
\* page of the node popped; entry i of the table is lut[i + 1].  A walk that
\* stops early at a node that has a child 0 pushes a page for that very node,
\* whose page does the same: the loop then never ends (stuck).
LutStep(st) ==
    LET cur == st.todo[Len(st.todo)]
        lut == st.lut
        at == [c \in 1..256 |-> LutWalk(st.tree, cur.node, c - 1, 0)] \o <<>>
        inner == {c \in 1..256 : st.tree[at[c].node].children[1] # 0}
        pageOf == [c \in 1..256 |->
                      Len(lut) + 256 * Cardinality({b \in inner : b < c})] \o <<>>
        entry(c) ==
            IF c \notin inner
            THEN [lut[cur.offset + c] EXCEPT
                     !.skip = at[c].skip, !.value = st.tree[at[c].node].value]
            ELSE [lut[cur.offset + c] EXCEPT !.skip = 0, !.next = pageOf[c]]
        pushed(k) == LET c == CHOOSE c \in inner : pageOf[c] = Len(lut) + 256 * (k - 1)
                     IN [node |-> at[c].node, offset |-> pageOf[c]]
        lut1 == [i \in 1..(Len(lut) + 256 * Cardinality(inner)) |->
                    IF i > Len(lut) THEN EmptyEntry
                    ELSE IF i > cur.offset /\ i <= cur.offset + 256
                         THEN entry(i - cur.offset)
                         ELSE lut[i]]
        todo1 == SubSeq(st.todo, 1, Len(st.todo) - 1)
                    \o ([k \in 1..Cardinality(inner) |-> pushed(k)] \o <<>>)
    IN IF \E c \in inner : at[c].skip < 8
       THEN [st EXCEPT !.stuck = TRUE, !.done = TRUE]
       ELSE [st EXCEPT !.lut = lut1 \o <<>>, !.todo = todo1, !.done = todo1 = <<>>]

\* the loop over todo of unpackHuffmanTree, from the page of the root on
BuildLut(tree) ==
    Iterate(LutStep,
            [tree |-> tree, lut |-> [i \in 1..256 |-> EmptyEntry] \o <<>>,
             todo |-> <<[node |-> 1, offset |-> 0]>>,
             stuck |-> FALSE, done |-> FALSE],
            Len(tree))

\* what unpackHuffmanTree returns when the loop over todo is left (or not)
LutBuilt(br, st) == [lut |-> st.lut, br |-> br, err |-> "nil", stuck |-> st.stuck]

\* unpackHuffmanTree after its call of unpackCodeLengths
TreeOf(cl) ==
    IF cl.err # "nil" THEN [lut |-> <<>>, br |-> cl.br, err |-> cl.err, stuck |-> FALSE]
    ELSE IF Len(cl.h) = 1 THEN [lut |-> <<>>, br |-> cl.br, err |-> "nil", stuck |-> FALSE]
    ELSE LutBuilt(cl.br, BuildLut(InsertCodes(canonicalHuffmanCode(cl.h))))

\* unpackHuffmanTree: the prefix table, <<>> standing for a nil table
unpackHuffmanTree(r) == TreeOf(unpackCodeLengths(r))

(***************************************************************************)
(* Decompressor                                                            *)
(***************************************************************************)
\* the Decompressor NewDecompressor starts from, the size being read
Sized(sz) ==
    [br |-> sz.br, size |-> sz.val, remaining |-> sz.val,
     tree |-> <<>>, prev |-> Zero64, started |-> FALSE]

\* NewDecompressor after its call of unpackHuffmanTree
WithTree(d, t) ==
    IF t.err # "nil"
    THEN [d |-> [d EXCEPT !.br = t.br], err |-> t.err, stuck |-> FALSE]
    ELSE [d |-> [d EXCEPT !.br = t.br, !.tree = t.lut], err |-> "nil",
          stuck |-> t.stuck]

\* NewDecompressor after its call of ReadUvarint
Opened(d) ==
    IF d.br.err # "nil" THEN [d |-> d, err |-> d.br.err, stuck |-> FALSE]
    ELSE IF Len64(d.size) <= 1 THEN [d |-> d, err |-> "nil", stuck |-> FALSE]
    ELSE WithTree(d, unpackHuffmanTree(d.br))

\* NewDecompressorWithLogging (without a log): d is returned when err = "nil";
\* stuck says that the call does not return
NewDecompressor(data, chunk) == Opened(Sized(ReadUvarint(newBitReader(data, chunk))))

\* Decompressor.Remaining
Remaining(d) == d.remaining

RECURSIVE LookupCode(_, _, _)
RECURSIVE Looked(_, _, _)
\* a turn of that loop that goes to the next page without consuming the
\* byte peeked
LookedInPlace(tree, code, node) ==
    IF tree[node + code.val + 1].skip # 0
    THEN [entry |-> tree[node + code.val + 1], br |-> code.br]
    ELSE LookupCode(tree, code.br, tree[node + code.val + 1].next)

\* the inner loop of read: follow the prefix table from page node
LookupCode(tree, r, node) == Looked(tree, PeekByte(r), node)

\* one turn of that loop, code being the byte peeked
Looked(tree, code, node) ==
    IF tree[node + code.val + 1].skip # 0
    THEN [entry |-> tree[node + code.val + 1], br |-> code.br]
    ELSE LookupCode(tree, SkipBits(code.br, 8), tree[node + code.val + 1].next)

\* val := d.prev + delta, less one for the first value emitted
NextValue(d, delta) ==
    IF d.started THEN Add64(d.prev, delta) ELSE Sub64(Add64(d.prev, delta), One64)

\* the end of one turn of a decoding loop: val is stored
Emit(st, br, val) ==
    [d |-> [st.d EXCEPT !.br = br, !.prev = val, !.started = TRUE],
     out |-> Append(st.out, val),
     done |-> Len(st.out) + 1 >= st.n, n |-> st.n]

\* the delta of bitlength bn is 1 << bn | bits
ReadDelta(st, bn, bits) ==
    Emit(st, bits.br, NextValue(st.d, Or64(bits.val, Shl(One64, bn))))

\* the codeword of a bitlength is skipped and the bits of the delta are read
ReadResidual(st, look) ==
    ReadDelta(st, look.entry.value,
              ReadBits(SkipBits(look.br, look.entry.skip), look.entry.value))

\* one turn of the loop of read: the codeword of a bitlength, then the delta
ReadValue(st) == ReadResidual(st, LookupCode(st.d.tree, st.d.br, 0))

\* a decoding loop that takes every value it decodes for the first one
readRestarted(d, n) ==
    Iterate(ReadValue,
            [d |-> [d EXCEPT !.started = FALSE], out |-> <<>>, done |-> n = 0, n |-> n],
            n)

\* Decompressor.read: decode n values
read(d, n) ==
    Iterate(ReadValue, [d |-> d, out |-> <<>>, done |-> n = 0, n |-> n], n)

\* one turn of the loop of Read for a nil table: every delta is 1
TrivialValue(st) == Emit(st, st.d.br, NextValue(st.d, One64))

\* the loop of Read for a nil table
readTrivial(d, n) ==
    Iterate(TrivialValue, [d |-> d, out |-> <<>>, done |-> n = 0, n |-> n], n)

\* a check that lets every buffer through
NeverOversized(d, n) == FALSE

\* the check of Read for two or more elements: the buffer is longer than
\* what remains
Oversized(d, n) == Less64(d.remaining, U64(n))

\* the endmarker mark has been read: it is checked
CheckEndmarker(d, mark) ==
    [d |-> [d EXCEPT !.br = mark.br],
     err |-> IF mark.val # U64(170) THEN "Incorrect endmarker" ELSE mark.br.err]

\* an end of Read that reads and checks the endmarker whatever remains
FinishEveryRead(d) == CheckEndmarker(d, ReadBits(d.br, 8))

\* an end of Read that never reads the endmarker
FinishUnchecked(d) == [d |-> d, err |-> d.br.err]

\* the end of Read: once nothing remains the endmarker is read and checked
Finish(d) ==
    IF d.remaining = Zero64 THEN CheckEndmarker(d, ReadBits(d.br, 8))
    ELSE [d |-> d, err |-> d.br.err]

\* Read of a set of one element after its call of ReadUvarint
ReadOne(d, n, one) ==
    IF one.br.err # "nil"
    THEN [d |-> [d EXCEPT !.br = one.br], out |-> <<one.val>>, err |-> one.br.err]
    ELSE [d |-> [d EXCEPT !.br = one.br, !.remaining = Zero64],
          out |-> <<one.val>>,
          err |-> IF n > 1 THEN "NoMore" ELSE "nil"]

\* what Read returns: the values decoded and what the end of Read found
Delivered(got, end) == [d |-> end.d, out |-> got, err |-> end.err]

\* an end of the decoding loop that leaves d.remaining as it was
DecodedUncounted(got, left) == Delivered(got.out, Finish(got.d))

\* Read after its decoding loop: d.remaining -= len(set), then the end
Decoded(got, left) == Delivered(got.out, Finish([got.d EXCEPT !.remaining = left]))

\* Decompressor.Read(set) with len(set) = n: the decompressor afterwards, the
\* values stored into set (a prefix of it) and the error returned
Read(d, n) ==
    IF n = 0 THEN [d |-> d, out |-> <<>>, err |-> "nil"]
    ELSE IF d.size = Zero64 THEN [d |-> d, out |-> <<>>, err |-> "NoMore"]
    ELSE IF d.size = One64
    THEN IF d.remaining = Zero64 THEN [d |-> d, out |-> <<>>, err |-> "NoMore"]
         ELSE ReadOne(d, n, ReadUvarint(d.br))
    ELSE IF Oversized(d, n) THEN [d |-> d, out |-> <<>>, err |-> "NoMore"]
    ELSE Decoded(IF d.tree = <<>> THEN readTrivial(d, n) ELSE read(d, n),
                 Sub64(d.remaining, U64(n)))

\* a slice of more than 2^MaxSlice values cannot be made: make panics or the
\* program runs out of memory
MaxSlice == 30

\* what Decompress returns, rd being what its call of Read returned
Returned(rd) ==
    IF rd.err # "nil" THEN [ret |-> <<>>, err |-> rd.err, panic |-> FALSE, stuck |-> FALSE]
    ELSE [ret |-> rd.out, err |-> "nil", panic |-> FALSE, stuck |-> FALSE]

\* Decompress after its call of NewDecompressor
ReadAll(nd) ==
    IF nd.stuck THEN [ret |-> <<>>, err |-> "nil", panic |-> FALSE, stuck |-> TRUE]
    ELSE IF nd.err # "nil"
    THEN [ret |-> <<>>, err |-> nd.err, panic |-> FALSE, stuck |-> FALSE]
    ELSE IF Len64(Remaining(nd.d)) > MaxSlice
    THEN [ret |-> <<>>, err |-> "nil", panic |-> TRUE, stuck |-> FALSE]
    ELSE Returned(Read(nd.d, NatOf(Remaining(nd.d))))

\* Decompress: the slice returned (<<>> for nil) and the error; panic says
\* that it panics instead, stuck that it does not return
Decompress(data, chunk) == ReadAll(NewDecompressor(data, chunk))

(***************************************************************************)
(* The program at work: a caller compresses a slice, the bytes written     *)
(* travel to a reader (whole, without their final byte, or with a flipped  *)
(* endmarker bit), and are decompressed in one call or incrementally.      *)
(***************************************************************************)
VARIABLES
    set,      \* the caller's slice handed to Compress or CompressSorted
    phase,    \* "input", "compressed", "panicked", "open", "failed", "hung", "done"
    stream,   \* the bytes handed to the decompressor
    kind,     \* where stream comes from: "none", "valid", "truncated", "tampered", "forged"
    d,        \* the Decompressor NewDecompressor returned
    fresh,    \* that Decompressor as it was returned
    out,      \* the values the Read calls have stored so far, in order
    lastN,    \* the buffer length of the last Read
    lastErr,  \* the error the last NewDecompressor or Read returned
    seen,     \* the errors the Read calls have returned so far
    res,      \* what Decompress returned
    br,       \* a bitReader used on its own
    bitpos,   \* the number of bits the calls on br have asked for so far
    freq,     \* a frequency table handed to buildHuffmanCode
    lengths,  \* the code lengths of the codebook buildHuffmanCode returned
    wr,       \* a bitWriter used on its own
    calls,    \* the calls made on wr so far, in order
    book,     \* the codebook buildHuffmanCode returned
    exit      \* the exit code of the command-line compressor

vars == <<set, phase, stream, kind, d, fresh, out, lastN, lastErr, seen, res,
          br, bitpos, freq, lengths,
          wr, calls, book, exit>>

\* the longest slice a caller hands over
MaxLen == 3

\* the longest buffer a caller hands to Read
MaxRead == 4

\* the underlying reader hands out at most 1..MaxChunk bytes per read, or
\* whatever the bufio.Reader asks for
MaxChunk == 2

\* the endmarker bits 0..MaxFlip may be flipped on the way
MaxFlip == 1

\* the values the caller's slices are made of: 0, 1, 2, 2^20 and 2^64 - 1
Values == {Zero64, One64, {1}, {20}, Max64}

Inputs == UNION {[1..n -> Values] : n \in 0..MaxLen}

Chunks == 1..MaxChunk \cup {BufioSize}

\* a ten-byte size header: nine bytes with the continuation bit, the first
\* nine all zero or all ones in their low 7 bits, and a tenth byte
Overlong(low, tenth) == [i \in 1..10 |-> IF i < 10 THEN 128 + low ELSE tenth] \o <<>>

Headers == {Overlong(low, tenth) : low \in {0, 127}, tenth \in {0, 1, 2, 127}}

NoDecompressor == <<>>

NoResult == [ret |-> <<>>, err |-> "nil", panic |-> FALSE, chunk |-> 0]

NoReader == <<>>

NoWriter == <<>>

\* the command has not exited
NoExit == <<>>

\* no bitReader or bitWriter is used on its own, no codebook is built on its
\* own and no command is run
Aside ==
    /\ br = NoReader /\ bitpos = 0 /\ freq = <<>> /\ lengths = <<>>
    /\ wr = NoWriter /\ calls = <<>> /\ book = <<>> /\ exit = NoExit

Init ==
    /\ \/ /\ phase = "input"
          /\ \E s \in Inputs : set = s \o <<>>
          /\ stream = <<>>
          /\ kind = "none"
       \/ /\ phase = "compressed"
          /\ set = <<>>
          /\ stream \in Headers
          /\ kind = "forged"
    /\ d = NoDecompressor
    /\ fresh = NoDecompressor
    /\ out = <<>>
    /\ lastN = 0
    /\ lastErr = "nil"
    /\ seen = {}
    /\ res = NoResult
    /\ Aside

\* what the caller sees of a CompressSorted call that left the writer bw
Written(bw) ==
    /\ phase' = IF bw.panic THEN "panicked" ELSE "compressed"
    /\ stream' = bw.sink
    /\ kind' = IF bw.panic THEN "none" ELSE "valid"
    /\ UNCHANGED <<d, fresh, out, lastN, lastErr, seen, res, br, bitpos, freq, lengths,
                   wr, calls, book, exit>>

\* Compress(w, set): sorts the caller's slice in place, then CompressSorted
CompressCall ==
    /\ phase = "input"
    /\ set' = SortSlice(set)
    /\ Written(CompressSorted(SortSlice(set)))

\* CompressSorted(w, set)
CompressSortedCall ==
    /\ phase = "input"
    /\ set' = set
    /\ Written(CompressSorted(set))

\* the number of bits written to the writer bw
BitsWritten(bw) == 8 * Len(bw.pend) + bw.offset

\* the number of bits CompressSorted has written when it writes the endmarker
EndmarkerAt(s) == BitsWritten(CompressPayload(s))

\* bit p of a byte sequence, bit 0 being the lowest bit of the first byte
StreamBit(s, p) == (s[(p \div 8) + 1] \div Pow2(p % 8)) % 2

\* the byte sequence with bit p flipped
FlipBit(s, p) ==
    [s EXCEPT ![(p \div 8) + 1] =
        IF StreamBit(s, p) = 1 THEN @ - Pow2(p % 8) ELSE @ + Pow2(p % 8)]

\* the stream loses its final byte on the way to the reader
Truncate ==
    /\ phase = "compressed"
    /\ kind = "valid"
    /\ stream # <<>>
    /\ stream' = SubSeq(stream, 1, Len(stream) - 1)
    /\ kind' = "truncated"
    /\ UNCHANGED <<set, phase, d, fresh, out, lastN, lastErr, seen, res, br, bitpos, freq, lengths,
                   wr, calls, book, exit>>

\* bit j of the endmarker is flipped on the way to the reader
TamperEndmarker(j) ==
    /\ phase = "compressed"
    /\ kind = "valid"
    /\ Len(set) >= 2
    /\ EndmarkerAt(set) + j < 8 * Len(stream)
    /\ stream' = FlipBit(stream, EndmarkerAt(set) + j)
    /\ kind' = "tampered"
    /\ UNCHANGED <<set, phase, d, fresh, out, lastN, lastErr, seen, res, br, bitpos, freq, lengths,
                   wr, calls, book, exit>>

\* what the caller sees of a NewDecompressor call that returned nd
Open(nd) ==
    /\ phase' = IF nd.stuck THEN "hung" ELSE IF nd.err = "nil" THEN "open" ELSE "failed"
    /\ d' = IF nd.err = "nil" /\ ~nd.stuck THEN nd.d ELSE NoDecompressor
    /\ fresh' = d'
    /\ lastErr' = nd.err

\* NewDecompressor(r) on a reader that hands out the stream chunk bytes at a time
NewDecompressorCall(chunk) ==
    /\ phase = "compressed"
    /\ Open(NewDecompressor(stream, chunk))
    /\ UNCHANGED <<set, stream, kind, out, lastN, seen, res, br, bitpos, freq, lengths,
                   wr, calls, book, exit>>

\* what the caller sees of a Read call that returned rd
Stored(rd) ==
    /\ d' = rd.d
    /\ out' = out \o rd.out
    /\ lastErr' = rd.err
    /\ seen' = IF rd.err = "nil" THEN seen ELSE seen \cup {rd.err}

\* d.Read(buf) with len(buf) = n
ReadCall(n) ==
    /\ phase = "open"
    /\ Len(out) <= MaxLen
    /\ Stored(Read(d, n))
    /\ lastN' = n
    /\ UNCHANGED <<set, phase, stream, kind, fresh, res, br, bitpos, freq, lengths,
                   wr, calls, book, exit>>

\* what the caller sees of a Decompress call that returned r (or did not)
Finished(r, chunk) ==
    /\ res' = [ret |-> r.ret, err |-> r.err, panic |-> r.panic, chunk |-> chunk]
    /\ phase' = IF r.stuck THEN "hung" ELSE "done"

\* Decompress(r) on a reader that hands out the stream chunk bytes at a time
DecompressCall(chunk) ==
    /\ phase = "compressed"
    /\ Finished(Decompress(stream, chunk), chunk)
    /\ UNCHANGED <<set, stream, kind, d, fresh, out, lastN, lastErr, seen, br, bitpos, freq, lengths,
                   wr, calls, book, exit>>

Next ==
    \/ CompressCall
    \/ CompressSortedCall
    \/ Truncate
    \/ \E j \in 0..MaxFlip : TamperEndmarker(j)
    \/ \E chunk \in Chunks : NewDecompressorCall(chunk)
    \/ \E n \in 0..MaxRead : ReadCall(n)
    \/ \E chunk \in Chunks : DecompressCall(chunk)

Spec == Init /\ [][Next]_vars

(***************************************************************************)
(* Forged codebook headers: a reader is handed bytes that no compressor    *)
(* wrote, a size of two followed by a codebook header with arbitrary runs  *)
(* of length differences, whole or cut off after its third byte.           *)
(***************************************************************************)
\* the largest bitlength B a forged header announces
MaxSymbol == 2

\* a run of count pairs "0, sign" for one symbol: <<count, sign>>
RunChoices(B) == {<<0, 0>>} \cup ((1..(B + 2)) \X {0, 1})

RECURSIVE PackRuns(_, _, _)
\* the runs of the symbols i..B, each followed by its terminating 1 bit
PackRuns(bw, runs, i) ==
    IF i > Len(runs) THEN bw
    ELSE PackRuns(WriteBits(PackPairs(bw, runs[i][2], runs[i][1]), One64, 1),
                  runs, i + 1)

\* the bytes of a stream of size k: B and h[0] in 6 bits each, the runs, and
\* 16 more bits
Codebook(k, B, h0, runs) ==
    Close(WriteBits(PackRuns(WriteBits(WriteBits(WriteUvarint(newBitWriter, U64(k)),
                                                 U64(B), 6),
                                       U64(h0), 6),
                             runs, 1),
                    U64(43690), 16)).sink

Codebooks ==
    {Codebook(2, B, h0, runs \o <<>>) :
        B \in 1..MaxSymbol, h0 \in {1, 2}, runs \in [1..MaxSymbol -> RunChoices(MaxSymbol)]}

\* the first bytes of a stream
CutAt(s, n) == SubSeq(s, 1, Min(n, Len(s)))

HeaderInit ==
    /\ phase = "compressed"
    /\ set = <<>>
    /\ \E s \in Codebooks : stream = s \/ stream = CutAt(s, 3)
    /\ kind = "forged"
    /\ d = NoDecompressor
    /\ fresh = NoDecompressor
    /\ out = <<>>
    /\ lastN = 0
    /\ lastErr = "nil"
    /\ seen = {}
    /\ res = NoResult
    /\ Aside

HeaderNext ==
    \/ \E chunk \in Chunks : NewDecompressorCall(chunk)
    \/ \E n \in 0..MaxRead : ReadCall(n)
    \/ \E chunk \in Chunks : DecompressCall(chunk)

HeaderSpec == HeaderInit /\ [][HeaderNext]_vars

(***************************************************************************)
(* buildHuffmanCode on its own: a caller hands over a frequency table and  *)
(* gets the codebook back.                                                 *)
(***************************************************************************)
\* the most symbols of a small frequency table
MaxAlphabet == 4

\* the largest count in a small frequency table
MaxCount == 3

\* the table of the deltas of {2^64 - 3, 2^64 - 2}: bitlengths 63 and 0
SparseTable == [b \in 1..64 |-> IF b \in {1, 64} THEN 1 ELSE 0] \o <<>>

\* the table of the deltas of {1, 2, 4, ..., 2^63}: 64 bitlengths, once each
FlatTable == [b \in 1..64 |-> 1] \o <<>>

\* counts that double from one symbol to the next: the deepest tree
SteepTable == [b \in 1..30 |-> Pow2(b - 1)] \o <<>>

FreqTables ==
    UNION {[1..n -> 0..MaxCount] : n \in 1..MaxAlphabet}
        \cup {SparseTable, FlatTable, SteepTable}

\* the lengths of the entries of a codebook
LengthsOf(h) == [s \in 1..Len(h) |-> h[s].length] \o <<>>

\* the code lengths 1, 2, ..., 62, 63, 63: those of the tree buildHuffmanCode
\* builds for 64 counts that double from one symbol to the next, the deepest
\* tree there is (such counts do not fit the integers of the model)
Ladder == [s \in 1..64 |-> IF s = 64 THEN 63 ELSE s] \o <<>>

\* the bytes of a codebook header on its own
Packed(h) == Close(Pack(h, newBitWriter)).sink

HuffmanInit ==
    /\ \/ /\ phase = "table"
          /\ \E f \in FreqTables : freq = f \o <<>>
          /\ lengths = <<>>
          /\ book = <<>>
          /\ stream = <<>>
          /\ kind = "none"
       \/ /\ phase = "packed"
          /\ freq = <<>>
          /\ lengths = Ladder
          /\ book = canonicalHuffmanCode(Ladder)
          /\ stream = Packed(canonicalHuffmanCode(Ladder))
          /\ kind = "forged"
    /\ br = NoReader
    /\ bitpos = 0
    /\ set = <<>>
    /\ d = NoDecompressor
    /\ fresh = NoDecompressor
    /\ out = <<>>
    /\ lastN = 0
    /\ lastErr = "nil"
    /\ seen = {}
    /\ res = NoResult
    /\ wr = NoWriter
    /\ calls = <<>>
    /\ exit = NoExit

\* buildHuffmanCode(freq)
BuildHuffmanCodeCall ==
    /\ phase = "table"
    /\ phase' = "built"
    /\ book' = buildHuffmanCode(freq)
    /\ lengths' = LengthsOf(book')
    /\ UNCHANGED <<set, stream, kind, d, fresh, out, lastN, lastErr, seen, res,
                   br, bitpos, freq, wr, calls, exit>>

\* code.Pack(bw) on a new writer, and bw.Close()
PackCall ==
    /\ phase = "built"
    /\ phase' = "packed"
    /\ stream' = Packed(book)
    /\ kind' = "valid"
    /\ UNCHANGED <<set, d, fresh, out, lastN, lastErr, seen, res,
                   br, bitpos, freq, lengths, wr, calls, book, exit>>

\* what the caller sees of an unpackCodeLengths call that returned cl
LengthsRead(cl) ==
    /\ out' = cl.h
    /\ lastErr' = cl.err
    /\ br' = cl.br

\* unpackCodeLengths(br, nil) on a reader of the header that hands out chunk
\* bytes at a time
UnpackCodeLengthsCall(chunk) ==
    /\ phase = "packed"
    /\ phase' = "lengths"
    /\ LengthsRead(unpackCodeLengths(newBitReader(stream, chunk)))
    /\ UNCHANGED <<set, stream, kind, d, fresh, lastN, seen, res,
                   bitpos, freq, lengths, wr, calls, book, exit>>

\* what the caller sees of an unpackHuffmanTree call that returned t (or did
\* not return): the prefix table is kept in a Decompressor
TreeRead(t) ==
    /\ phase' = IF t.stuck THEN "hung" ELSE "tree"
    /\ d' = [Sized([val |-> U64(Len(book)), br |-> t.br]) EXCEPT !.tree = t.lut]
    /\ lastErr' = t.err

\* unpackHuffmanTree(br, nil) on a reader of the header
UnpackHuffmanTreeCall(chunk) ==
    /\ phase = "packed"
    /\ TreeRead(unpackHuffmanTree(newBitReader(stream, chunk)))
    /\ UNCHANGED <<set, stream, kind, fresh, out, lastN, seen, res,
                   br, bitpos, freq, lengths, wr, calls, book, exit>>

HuffmanNext ==
    \/ BuildHuffmanCodeCall
    \/ PackCall
    \/ \E chunk \in Chunks : UnpackCodeLengthsCall(chunk)
    \/ \E chunk \in Chunks : UnpackHuffmanTreeCall(chunk)

HuffmanSpec == HuffmanInit /\ [][HuffmanNext]_vars

(***************************************************************************)
(* The bit-level layer on its own, as in TestUvarint and TestEliasDelta: a *)
(* caller writes words with one of the codings, closes the writer, and     *)
(* reads the bytes back through a bitReader; or it reads the bytes with    *)
(* ReadBits directly.                                                      *)
(***************************************************************************)
\* the most words a caller writes
MaxWords == 2

\* the most ReadBits calls a caller makes on one reader
MaxBitReads == 2

\* the words written: 0, 1, 2^20, 2^55 - 2, 2^63 and 2^64 - 1
Words == {Zero64, One64, {20}, 1..54, {63}, Max64}

WordInputs == UNION {[1..n -> Words] : n \in 1..MaxWords}

\* the numbers of bits asked of ReadBits
BitWidths == {0, 1, 7, 12, 64}

BitioInit ==
    /\ phase = "words"
    /\ \E s \in WordInputs : set = s \o <<>>
    /\ stream = <<>>
    /\ kind = "none"
    /\ br = NoReader
    /\ bitpos = 0
    /\ out = <<>>
    /\ lastN = 0
    /\ lastErr = "nil"
    /\ d = NoDecompressor
    /\ fresh = NoDecompressor
    /\ seen = {}
    /\ res = NoResult
    /\ freq = <<>>
    /\ lengths = <<>>
    /\ wr = NoWriter
    /\ calls = <<>>
    /\ book = <<>>
    /\ exit = NoExit

RECURSIVE WriteUvarints(_, _, _)
\* WriteUvarint for each of the words xs[i], xs[i+1], ...
WriteUvarints(w, xs, i) ==
    IF i > Len(xs) THEN w ELSE WriteUvarints(WriteUvarint(w, xs[i]), xs, i + 1)

RECURSIVE WriteEliasDeltas(_, _, _)
\* WriteEliasDelta for each of the words xs[i], xs[i+1], ...
WriteEliasDeltas(w, xs, i) ==
    IF i > Len(xs) THEN w ELSE WriteEliasDeltas(WriteEliasDelta(w, xs[i]), xs, i + 1)

\* what the caller sees of the writer bw once it is closed
Closed(bw, coding) ==
    /\ phase' = IF bw.panic THEN "panicked" ELSE "written"
    /\ stream' = bw.sink
    /\ kind' = coding
    /\ UNCHANGED <<set, d, fresh, out, lastN, lastErr, seen, res, br, bitpos,
                   freq, lengths,
                   wr, calls, book, exit>>

\* the loop of TestUvarint that writes, and w.Close()
WriteUvarintCalls ==
    /\ phase = "words"
    /\ Closed(Close(WriteUvarints(newBitWriter, set, 1)), "uvarint")

\* the loop of TestEliasDelta that writes, and w.Close(); every word x has
\* x + 1 < 2^64
WriteEliasDeltaCalls ==
    /\ phase = "words"
    /\ \A i \in 1..Len(set) : set[i] # Max64
    /\ Closed(Close(WriteEliasDeltas(newBitWriter, set, 1)), "eliasdelta")

\* newBitReader(r) on a reader that hands out the bytes chunk at a time
NewBitReaderCall(chunk) ==
    /\ phase = "written"
    /\ phase' = "reading"
    /\ br' = IF kind = "eliasdelta" THEN newBitReaderInt(stream, chunk)
             ELSE newBitReader(stream, chunk)
    /\ UNCHANGED <<set, stream, kind, d, fresh, out, lastN, lastErr, seen, res,
                   bitpos, freq, lengths,
                   wr, calls, book, exit>>

\* what the caller sees of a call on the reader that returned rd
Got(rd) ==
    /\ br' = rd.br
    /\ out' = Append(out, rd.val)
    /\ lastErr' = rd.br.err
    /\ UNCHANGED <<set, stream, kind, d, fresh, seen, res, freq, lengths,
                   wr, calls, book, exit>>

\* one turn of the loop of TestUvarint that reads: r.ReadUvarint(), r.Err()
ReadUvarintCall ==
    /\ phase = "reading"
    /\ kind = "uvarint"
    /\ Len(out) < Len(set)
    /\ Got(ReadUvarint(br))
    /\ UNCHANGED <<phase, lastN, bitpos>>

\* what the caller sees of a ReadEliasDelta call that returned rd (or panicked)
GotElias(rd) ==
    /\ Got(rd)
    /\ phase' = IF rd.br.panic THEN "panicked" ELSE "reading"

\* one turn of the loop of TestEliasDelta that reads: r.ReadEliasDelta(), r.Err()
ReadEliasDeltaCall ==
    /\ phase = "reading"
    /\ kind = "eliasdelta"
    /\ Len(out) < Len(set)
    /\ GotElias(ReadEliasDelta(br))
    /\ UNCHANGED <<lastN, bitpos>>

\* r.ReadBits(l) on a reader no other call has been made on, while at least
\* l bits remain in the stream
ReadBitsCall(l) ==
    /\ \/ phase = "reading" /\ out = <<>>
       \/ phase = "bits"
    /\ kind = "uvarint"
    /\ Len(out) < MaxBitReads
    /\ bitpos + l <= 8 * Len(stream)
    /\ Got(ReadBits(br, l))
    /\ phase' = "bits"
    /\ lastN' = l
    /\ bitpos' = bitpos + l

BitioNext ==
    \/ WriteUvarintCalls
    \/ WriteEliasDeltaCalls
    \/ \E chunk \in Chunks : NewBitReaderCall(chunk)
    \/ ReadUvarintCall
    \/ ReadEliasDeltaCall
    \/ \E l \in BitWidths : ReadBitsCall(l)

BitioSpec == BitioInit /\ [][BitioNext]_vars

(***************************************************************************)
(* The bit writer on its own, in front of an io.Writer that never fails or *)
(* that returns an error once it has taken a few bytes: a caller makes     *)
(* WriteBits and WriteUvarint calls and closes the writer, and may go on   *)
(* writing afterwards; or it hands the io.Writer to CompressSorted.        *)
(***************************************************************************)
\* the most calls a caller makes on one writer
MaxCalls == 3

\* the io.Writers: one that never fails, one that fails at once, and one that
\* takes three bytes first
Sinks == {newBitWriter, newBitWriterTo(0), newBitWriterTo(3)}

\* the values handed to WriteBits: 0, 3 and 2^64 - 1
FieldValues == {Zero64, {0, 1}, Max64}

\* the widths handed to WriteBits
FieldWidths == {0, 1, 8, 64}

\* the values handed to WriteUvarint: 1 and 128
VarintValues == {One64, {7}}

WriterInit ==
    /\ \/ /\ phase = "writing"
          /\ set = <<>>
       \/ /\ phase = "input"
          /\ \E s \in Inputs : set = s \o <<>>
    /\ wr \in Sinks
    /\ calls = <<>>
    /\ stream = <<>>
    /\ kind = "none"
    /\ br = NoReader
    /\ bitpos = 0
    /\ d = NoDecompressor
    /\ fresh = NoDecompressor
    /\ out = <<>>
    /\ lastN = 0
    /\ lastErr = "nil"
    /\ seen = {}
    /\ res = NoResult
    /\ freq = <<>>
    /\ lengths = <<>>
    /\ book = <<>>
    /\ exit = NoExit

\* what the caller sees of a call on the writer that left it as w
Called(w, call) ==
    /\ wr' = w
    /\ calls' = Append(calls, call)
    /\ phase' = IF w.panic THEN "panicked" ELSE phase
    /\ UNCHANGED <<set, stream, kind, d, fresh, out, lastN, lastErr, seen, res,
                   br, bitpos, freq, lengths, book, exit>>

\* w.WriteBits(v, l), before or after w.Close()
WriteBitsCall(v, l) ==
    /\ phase \in {"writing", "closed"}
    /\ Len(calls) < MaxCalls
    /\ Called(WriteBits(wr, v, l), [op |-> "WriteBits", value |-> v, l |-> l])

\* one turn of a loop of WriteBits(v, 64) calls
WriteWord(st) ==
    [st EXCEPT !.w = WriteBits(st.w, st.v, 64), !.i = st.i + 1,
               !.done = st.i + 1 >= st.n]

\* n times w.WriteBits(v, 64)
WriteWords(w, v, n) ==
    Iterate(WriteWord, [w |-> w, v |-> v, n |-> n, i |-> 0, done |-> n <= 0], n).w

\* a loop of WriteBits(v, 64) calls on a new writer that fills the buffer of
\* the bufio.Writer
WriteWordsCall(v) ==
    /\ phase = "writing"
    /\ calls = <<>>
    /\ Called(WriteWords(wr, v, BufioSize \div 8),
              [op |-> "WriteWords", value |-> v, l |-> 64])

\* w.WriteUvarint(x), before or after w.Close()
WriteUvarintCall(x) ==
    /\ phase \in {"writing", "closed"}
    /\ Len(calls) < MaxCalls
    /\ Called(WriteUvarint(wr, x), [op |-> "WriteUvarint", value |-> x, l |-> 0])

\* w.Close()
CloseCall ==
    /\ phase = "writing"
    /\ wr' = Close(wr)
    /\ calls' = Append(calls, [op |-> "Close", value |-> Zero64, l |-> 0])
    /\ phase' = "closed"
    /\ UNCHANGED <<set, stream, kind, d, fresh, out, lastN, lastErr, seen, res,
                   br, bitpos, freq, lengths, book, exit>>

\* what the caller sees of a CompressSorted call that left the writer w and
\* returned w.err
Compressed(w) ==
    /\ wr' = w
    /\ phase' = IF w.panic THEN "panicked" ELSE "returned"
    /\ lastErr' = w.err
    /\ stream' = w.sink

\* CompressSorted(w, set) on an io.Writer w that may fail
CompressSortedToCall ==
    /\ phase = "input"
    /\ Compressed(CompressSortedTo(wr, set))
    /\ UNCHANGED <<set, kind, d, fresh, out, lastN, seen, res,
                   br, bitpos, freq, lengths, calls, book, exit>>

WriterNext ==
    \/ \E v \in FieldValues : \E l \in FieldWidths : WriteBitsCall(v, l)
    \/ \E v \in FieldValues : WriteWordsCall(v)
    \/ \E x \in VarintValues : WriteUvarintCall(x)
    \/ CloseCall
    \/ CompressSortedToCall

WriterSpec == WriterInit /\ [][WriterNext]_vars

(***************************************************************************)
(* The bit reader on its own, in front of a source that may have more to   *)
(* give after it has run dry and that may return another error than        *)
(* io.EOF: a caller makes read calls and asks for Err() after each.        *)
(***************************************************************************)
\* the most calls a caller makes on one reader
MaxOps == 3

\* what the source holds at first: nothing, one byte, three bytes
Sources == {<<>>, <<170>>, <<1, 2, 3>>}

\* what the source may come to hold later: one more byte, or ten bytes that
\* make a size header of more than 64 bits
Supplies == {<<255>>, Overlong(127, 2)}

\* the errors the source may return when it has no bytes to give
Faults == {"EOF", "timeout"}

ReaderInit ==
    /\ phase = "reading"
    /\ kind = "source"
    /\ \E s \in Sources : \E chunk \in Chunks : br = newBitReader(s, chunk)
    /\ calls = <<>>
    /\ set = <<>>
    /\ stream = <<>>
    /\ bitpos = 0
    /\ d = NoDecompressor
    /\ fresh = NoDecompressor
    /\ out = <<>>
    /\ lastN = 0
    /\ lastErr = "nil"
    /\ seen = {}
    /\ res = NoResult
    /\ freq = <<>>
    /\ lengths = <<>>
    /\ wr = NoWriter
    /\ book = <<>>
    /\ exit = NoExit

\* what the caller sees of a call on the reader that left it as r: r.Err()
Queried(r, op) ==
    /\ br' = r
    /\ lastErr' = r.err
    /\ calls' = Append(calls, op)
    /\ UNCHANGED <<set, phase, stream, kind, d, fresh, out, lastN, seen, res,
                   bitpos, freq, lengths, wr, book, exit>>

\* r.ReadBits(l)
ReadBitsOp(l) ==
    /\ phase = "reading" /\ kind = "source"
    /\ Len(calls) < MaxOps
    /\ Queried(ReadBits(br, l).br, "ReadBits")

\* r.ReadBit()
ReadBitOp ==
    /\ phase = "reading" /\ kind = "source"
    /\ Len(calls) < MaxOps
    /\ Queried(ReadBit(br).br, "ReadBit")

\* r.PeekByte()
PeekByteOp ==
    /\ phase = "reading" /\ kind = "source"
    /\ Len(calls) < MaxOps
    /\ Queried(PeekByte(br).br, "PeekByte")

\* r.SkipBits(l)
SkipBitsOp(l) ==
    /\ phase = "reading" /\ kind = "source"
    /\ Len(calls) < MaxOps
    /\ Queried(SkipBits(br, l), "SkipBits")

\* r.ReadUvarint()
ReadUvarintOp ==
    /\ phase = "reading" /\ kind = "source"
    /\ Len(calls) < MaxOps
    /\ Queried(ReadUvarint(br).br, "ReadUvarint")

\* the source comes to hold more bytes
SourceSupplies(more) ==
    /\ phase = "reading" /\ kind = "source"
    /\ Len(br.data) <= 3
    /\ br' = [br EXCEPT !.data = br.data \o more]
    /\ UNCHANGED <<set, phase, stream, kind, d, fresh, out, lastN, lastErr, seen,
                   res, bitpos, freq, lengths, wr, calls, book, exit>>

\* the source starts to return the error e when it has no bytes to give
SourceFaults(e) ==
    /\ phase = "reading" /\ kind = "source"
    /\ br.fault # e
    /\ br' = [br EXCEPT !.fault = e]
    /\ UNCHANGED <<set, phase, stream, kind, d, fresh, out, lastN, lastErr, seen,
                   res, bitpos, freq, lengths, wr, calls, book, exit>>

ReaderNext ==
    \/ \E l \in {1, 8} : ReadBitsOp(l)
    \/ ReadBitOp
    \/ PeekByteOp
    \/ \E l \in {1, 8} : SkipBitsOp(l)
    \/ ReadUvarintOp
    \/ \E more \in Supplies : SourceSupplies(more)
    \/ \E e \in Faults : SourceFaults(e)

ReaderSpec == ReaderInit /\ [][ReaderNext]_vars

(***************************************************************************)
(* The callers of the compressor: a program that hands a slice to Compress *)
(* or to CompressSorted and looks at the slice afterwards, and the         *)
(* command-line compressor, which reads the numbers from the lines of a    *)
(* file.  set is the slice, or the lines of the file; calls holds the call *)
(* made on the codec with the slice as it was handed over.                 *)
(***************************************************************************)
\* a line of the input file that strconv.ParseUint rejects
Junk == {-1}

Lines == Values \cup {Junk}

\* the input files: up to MaxLen lines
Files == UNION {[1..n -> Lines] : n \in 0..MaxLen}

CallerInit ==
    /\ phase = "input"
    /\ \/ /\ kind = "slice"
          /\ \E s \in Inputs : set = s \o <<>>
       \/ /\ kind = "file"
          /\ \E f \in Files : set = f \o <<>>
    /\ wr \in Sinks
    /\ calls = <<>>
    /\ exit = NoExit
    /\ stream = <<>>
    /\ br = NoReader
    /\ bitpos = 0
    /\ d = NoDecompressor
    /\ fresh = NoDecompressor
    /\ out = <<>>
    /\ lastN = 0
    /\ lastErr = "nil"
    /\ seen = {}
    /\ res = NoResult
    /\ freq = <<>>
    /\ lengths = <<>>
    /\ book = <<>>

\* a Compress that sorts a copy of the slice
CompressCopy(bw, s) ==
    [set |-> s, bw |-> CompressSortedTo(bw, SortSlice(s))]

\* Compress(w, set), bw being newBitWriter(w): the caller's slice afterwards
\* and the writer left behind
CompressSlice(bw, s) ==
    [set |-> SortSlice(s), bw |-> CompressSortedTo(bw, SortSlice(s))]

\* what the caller has after a call of fn on its slice: the slice as it is
\* now and the writer bw
Handed(fn, now, bw) ==
    /\ calls' = <<[fn |-> fn, arg |-> set]>>
    /\ set' = now
    /\ wr' = bw
    /\ stream' = bw.sink
    /\ lastErr' = bw.err
    /\ phase' = IF bw.panic THEN "panicked" ELSE "returned"
    /\ UNCHANGED <<kind, d, fresh, out, lastN, seen, res,
                   br, bitpos, freq, lengths, book, exit>>

Sliced(c) == Handed("Compress", c.set, c.bw)

\* Compress(w, set) by a caller that keeps the slice
CompressSliceCall ==
    /\ phase = "input"
    /\ kind = "slice"
    /\ Sliced(CompressSlice(wr, set))

\* CompressSorted(w, set) by a caller that keeps the slice
CompressSortedSliceCall ==
    /\ phase = "input"
    /\ kind = "slice"
    /\ Handed("CompressSorted", set, CompressSortedTo(wr, set))

\* the scanner loop of doCompress on the line cur
ScanLine(st, cur) ==
    IF cur = Junk THEN [st EXCEPT !.code = 5, !.done = TRUE]
    ELSE IF st.line # 0 /\ cur = st.prev THEN [st EXCEPT !.code = 6, !.done = TRUE]
    ELSE [st EXCEPT !.sorted = st.sorted /\ ~Less64(cur, st.prev),
                    !.line = st.line + 1,
                    !.xs = Append(st.xs, cur),
                    !.prev = cur]

\* doCompress when scanner.Scan() has returned false: every line is in xs
Scanned(file) ==
    Iterate(LAMBDA st : ScanLine(st, file[st.line + 1]),
            [prev |-> Zero64, sorted |-> TRUE, line |-> 0, xs |-> <<>>,
             code |-> 0, done |-> Len(file) = 0],
            Len(file))

\* doCompress returns code without a call on the codec
Rejected(code) ==
    /\ phase' = "exited"
    /\ exit' = code
    /\ UNCHANGED <<set, stream, kind, d, fresh, out, lastN, lastErr, seen, res,
                   br, bitpos, freq, lengths, wr, calls, book>>

\* doCompress after the call fn on the codec, which left the writer bw: a
\* panic ends the process with status 2, an error is exit code 7, and
\* w.Flush() has nothing left to write
Coded(fn, xs, bw) ==
    /\ calls' = <<[fn |-> fn, arg |-> xs]>>
    /\ wr' = bw
    /\ stream' = bw.sink
    /\ lastErr' = bw.err
    /\ phase' = IF bw.panic THEN "panicked" ELSE "exited"
    /\ exit' = IF bw.panic THEN 2 ELSE IF bw.err # "nil" THEN 7 ELSE 0
    /\ UNCHANGED <<set, kind, d, fresh, out, lastN, seen, res,
                   br, bitpos, freq, lengths, book>>

\* doCompress after the scanner loop
Decided(sc) ==
    IF sc.code # 0 THEN Rejected(sc.code)
    ELSE IF sc.sorted THEN Coded("CompressSorted", sc.xs, CompressSortedTo(wr, sc.xs))
    ELSE Coded("Compress", sc.xs, CompressSlice(wr, sc.xs).bw)

\* doCompress on the file whose lines are set
doCompress ==
    /\ phase = "input"
    /\ kind = "file"
    /\ Decided(Scanned(set))

CallerNext ==
    \/ CompressSliceCall
    \/ CompressSortedSliceCall
    \/ doCompress

CallerSpec == CallerInit /\ [][CallerNext]_vars

(***************************************************************************)
(* Properties                                                              *)
(***************************************************************************)
\* C1: Decompress applied to the bytes Compress (or CompressSorted) wrote for
\* a set returns a nil error and exactly the elements of the set in
\* ascending order, whatever pieces the reader hands the bytes out in.
C1_RoundTrip ==
    (phase = "done" /\ kind = "valid") =>
        /\ res.err = "nil"
        /\ ~res.panic
        /\ res.ret = set
        /\ \A i \in 1..(Len(set) - 1) : Less64(set[i], set[i + 1])

\* C2: over a valid stream of a set of two or more elements, the values the
\* Read calls made so far have delivered, in order, are the values one single
\* Read of their total number delivers on the Decompressor as it was returned.
C2_IncrementalEquivalence ==
    (phase = "open" /\ kind = "valid" /\ Len(set) >= 2) =>
        out = Read(fresh, Len(out)).out

\* two Read calls of one value each have delivered two of three elements
C2_Witness ==
    /\ phase = "open" /\ kind = "valid"
    /\ Len(set) = 3 /\ Len(out) = 2
    /\ lastN = 1 /\ lastErr = "nil"
    /\ d.tree # <<>>

\* C3: a Read with a buffer longer than Remaining() returns NoMore, leaves
\* the Decompressor as it was (remaining, prev, started, bit position) and
\* delivers no element, for every set size.
C3_OversizedReadIsInert ==
    [][(phase = "open" /\ Less64(Remaining(d), U64(lastN')))
          => (lastErr' = "NoMore" /\ d' = d /\ out' = out)]_vars

\* C4 as stated: once a Read has returned an error (NoMore, bad endmarker or
\* I/O), every later Read (with a non-empty buffer) returns an error.
C4_ErrorsAreSticky ==
    [][(phase = "open" /\ seen # {} /\ lastN' > 0) => lastErr' # "nil"]_vars

\* C4 amended: once a Read has returned a bad endmarker or an I/O error, or
\* NoMore with nothing remaining, every later Read with a non-empty buffer
\* returns an error.
C4_FailuresAreSticky ==
    [][(/\ phase = "open"
        /\ lastN' > 0
        /\ \/ seen \ {"NoMore"} # {}
           \/ "NoMore" \in seen /\ Remaining(d) = Zero64)
          => lastErr' # "nil"]_vars

\* a Read with a non-empty buffer after a bad endmarker has returned NoMore
C4_Witness ==
    /\ phase = "open"
    /\ "Incorrect endmarker" \in seen
    /\ lastN > 0
    /\ lastErr = "NoMore"

\* C5: for two or more elements, the Read that brings Remaining() to 0 reads
\* 8 more bits after the values it decodes and returns an error unless they
\* are 0xAA, and a Read that leaves Remaining() above 0 stops right after the
\* values it decodes; when the stream comes in one piece with no byte
\* missing, these 8 bits are the 8 bits of the stream after the last delta.
C5_EndmarkerWhenNothingRemains ==
    [][(/\ phase = "open"
        /\ Len(set) >= 2
        /\ lastN' > 0
        /\ ~Less64(Remaining(d), U64(lastN'))
        /\ d' # d)
          => LET decoded == IF d.tree = <<>> THEN readTrivial(d, lastN')
                            ELSE read(d, lastN')
                 mark == ReadBits(decoded.d.br, 8)
                 cursor == 8 * d'.br.pos - d'.br.size
                 p == EndmarkerAt(set)
                 whole == d.br.chunk = BufioSize /\ kind # "truncated"
             IN IF Remaining(d') = Zero64
                THEN /\ d'.br = mark.br
                     /\ mark.val # U64(170) => lastErr' # "nil"
                     /\ whole => cursor = p + 8
                     /\ (whole /\ \E j \in 0..7 : StreamBit(stream, p + j) # j % 2)
                           => lastErr' # "nil"
                ELSE /\ d'.br = decoded.d.br
                     /\ whole => cursor <= p]_vars

\* the last of three Read calls has found a flipped endmarker bit
C5_Witness ==
    /\ phase = "open" /\ kind = "tampered"
    /\ Len(set) = 3 /\ Len(out) = 3 /\ lastN = 1
    /\ Remaining(d) = Zero64
    /\ lastErr = "Incorrect endmarker"
    /\ d.br.chunk = BufioSize

\* C6: Decompress of a valid stream of a set of two or more elements whose
\* final byte is removed returns a non-nil error, and does so without a panic.
C6_TruncationReported ==
    (kind = "truncated" /\ Len(set) >= 2 /\ phase \in {"done", "hung"}) =>
        /\ phase = "done"
        /\ res.err # "nil"
        /\ ~res.panic

\* Decompress has returned an error for a truncated stream of three elements
C6_Witness ==
    /\ phase = "done" /\ kind = "truncated"
    /\ Len(set) = 3
    /\ res.err # "nil"
    /\ res.chunk = BufioSize

\* C7: CompressSorted called with a slice of two or more elements with some
\* set[i+1] <= set[i] panics: it returns nothing and nothing reaches the writer.
C7_UnsortedPanics ==
    (/\ phase # "input"
     /\ Len(set) >= 2
     /\ \E i \in 1..(Len(set) - 1) : set[i + 1] = set[i] \/ Less64(set[i + 1], set[i]))
        => (phase = "panicked" /\ stream = <<>>)

\* CompressSorted has panicked on a slice whose last two elements descend
C7_Witness ==
    /\ phase = "panicked"
    /\ Len(set) = 3
    /\ Less64(set[1], set[2])
    /\ Less64(set[3], set[2])

\* C8: for the empty set CompressSorted writes the single byte 0x00; for a
\* set {v} it writes the byte 0x01 and the base-128 bytes of v, low group
\* first, every byte but the last with its top bit set (11 bytes in all for
\* v = 2^64 - 1), and nothing else; Decompress returns [] and [v].
C8_SmallSetFraming ==
    /\ (kind = "valid" /\ Len(set) = 0) => stream = <<0>>
    /\ (kind = "valid" /\ Len(set) = 1) =>
          LET v == set[1]
              n == IF v = Zero64 THEN 1 ELSE (Len64(v) + 6) \div 7
          IN /\ stream = <<1>> \o [i \in 1..n |->
                                     BitsValue(Shr(v, 7 * (i - 1)), 0, 6)
                                        + (IF i < n THEN 128 ELSE 0)]
             /\ v = Max64 => Len(stream) = 11
    /\ (phase = "done" /\ kind = "valid" /\ Len(set) <= 1) =>
          (res.err = "nil" /\ ~res.panic /\ res.ret = set)

\* Decompress has returned [2^64 - 1] from the 11 bytes written for it
C8_Witness ==
    /\ phase = "done" /\ kind = "valid"
    /\ set = <<Max64>>
    /\ Len(stream) = 11
    /\ res.ret = <<Max64>>

\* C9: for two or more elements the stream CompressSorted wrote ends with 0
\* to 7 zero bits, before them the 8 bits of 0xAA, low bit first, and before
\* these the bits of the last delta below its top bit: the endmarker starts
\* where the last delta ends.
C9_StreamEndsWithEndmarker ==
    (phase = "compressed" /\ kind = "valid" /\ Len(set) >= 2) =>
        LET last == Sub64(set[Len(set)], set[Len(set) - 1])
            bn == Len64(last) - 1
            total == 8 * Len(stream)
            p == EndmarkerAt(set)
        IN /\ total - p - 8 \in 0..7
           /\ p - bn >= 0
           /\ \A q \in (p + 8)..(total - 1) : StreamBit(stream, q) = 0
           /\ \A j \in 0..7 : StreamBit(stream, p + j) = j % 2
           /\ \A j \in 0..(bn - 1) :
                 StreamBit(stream, p - bn + j) = (IF j \in last THEN 1 ELSE 0)

\* a stream of three elements has been written and ends with padding bits
C9_Witness ==
    /\ phase = "compressed" /\ kind = "valid"
    /\ Len(set) = 3
    /\ 8 * Len(stream) > EndmarkerAt(set) + 8

\* C10: a size header whose tenth byte carries a value above 1 makes
\* NewDecompressor, and so Decompress, return an error.
C10_OverflowReported ==
    (kind = "forged" /\ stream[10] % 128 > 1 /\ phase # "compressed") =>
        \/ phase = "failed"
        \/ phase = "done" /\ res.err # "nil"

\* bit p of a byte sequence, read as 0 past its end as ReadBit does
BitOrZero(s, p) == IF p < 8 * Len(s) THEN StreamBit(s, p) ELSE 0

RECURSIVE RunAt(_, _, _)
\* the number of pairs that stand from bit p on before a 1 bit takes the
\* place of the first bit of a pair, counted up to cap
RunAt(s, p, cap) ==
    IF cap = 0 \/ BitOrZero(s, p) = 1 THEN 0 ELSE 1 + RunAt(s, p + 2, cap - 1)

RECURSIVE SomeRunAbove(_, _, _, _, _)
\* some symbol of i..B has a run of more than limit pairs, the run of symbol
\* i starting at bit p
SomeRunAbove(s, p, i, B, limit) ==
    /\ i <= B
    /\ \/ RunAt(s, p, limit + 1) > limit
       \/ SomeRunAbove(s, p + 2 * RunAt(s, p, limit + 1) + 1, i + 1, B, limit)

\* the 6-bit field B of a stream whose size takes one byte
HeaderB(s) == (s[2] % 64)

\* NewDecompressor has returned the invalid-codebook error
InvalidCodebook ==
    phase = "failed" /\ lastErr = "invalid codelength in Huffman table"

C12_RemainingAccounting ==
    /\ []((phase = "open" /\ kind # "forged") =>
            /\ Remaining(fresh) = U64(Len(set))
            /\ ~Less64(U64(Len(set)), Remaining(d)))
    /\ [][phase = "open" =>
            /\ ~Less64(Remaining(d), Remaining(d'))
            /\ lastErr' = "nil" => Remaining(d') = Sub64(Remaining(d), U64(lastN'))]_vars

\* a Read of two of three elements has returned nil and one element remains
C12_Witness ==
    /\ phase = "open" /\ kind = "valid"
    /\ Len(set) = 3 /\ lastN = 2 /\ lastErr = "nil"
    /\ Remaining(fresh) = U64(3)
    /\ Remaining(d) = One64

\* the orderings of the elements of a slice
Orderings(s) ==
    {[i \in 1..Len(s) |-> s[p[i]]] \o <<>> :
        p \in {q \in [1..Len(s) -> 1..Len(s)] :
                  \A i, j \in 1..Len(s) : q[i] = q[j] => i = j}}

\* C13: the bytes written for a set are those Compress writes for every
\* ordering of its elements, and those CompressSorted writes for the sorted
\* slice; encoding the same input again gives the same bytes.
C13_OrderIndependence ==
    (phase = "compressed" /\ kind = "valid") =>
        /\ \A s \in Orderings(set) :
              ~Compress(s).panic /\ Compress(s).sink = stream
        /\ CompressSorted(set).sink = stream
        /\ \A i \in 1..(Len(set) - 1) : Less64(set[i], set[i + 1])

\* three elements are compressed, and Compress of their descending order
\* writes the same bytes
C13_Witness ==
    /\ phase = "compressed" /\ kind = "valid"
    /\ Len(set) = 3
    /\ Compress(<<set[3], set[2], set[1]>>).sink = stream
    /\ stream # <<>>

\* C14: buildHuffmanCode gives every symbol of a table of 2 to 64 symbols,
\* used or not, a codeword length in 1..63 (at most one less than the number
\* of symbols), which fits the 6-bit field of the header.
C14_LengthsFitSixBits ==
    (phase = "built" /\ Len(freq) >= 2) =>
        /\ Len(lengths) = Len(freq)
        /\ \A s \in 1..Len(lengths) :
              lengths[s] >= 1 /\ lengths[s] <= 63 /\ lengths[s] < Len(freq)

\* the codebook of the 64-symbol table with two used symbols is built, and
\* an unused symbol has a codeword
C14_Witness ==
    /\ phase = "built"
    /\ freq = SparseTable
    /\ Len(lengths) = 64
    /\ lengths[2] >= 1

RECURSIVE WeightedLength(_, _, _)
\* the sum of f[s] * L[s] over the symbols from s on
WeightedLength(f, L, s) ==
    IF s > Len(f) THEN 0 ELSE f[s] * L[s] + WeightedLength(f, L, s + 1)

RECURSIVE KraftSum(_, _, _)
\* the sum of 2^(top - L[s]) over the symbols from s on
KraftSum(L, top, s) ==
    IF s > Len(L) THEN 0 ELSE Pow2(top - L[s]) + KraftSum(L, top, s + 1)

\* Kraft's inequality for lengths of at most top: the sum of 2^-L[s] is at most 1
Kraft(L, top) == KraftSum(L, top, 1) <= Pow2(top)

\* C15: for a frequency table of 2 or more symbols, the lengths of the
\* codebook buildHuffmanCode returns satisfy Kraft's inequality, and no
\* assignment of lengths that satisfies it has a smaller sum of freq[s] * L(s).
C15_HuffmanOptimal ==
    (phase = "built" /\ Len(freq) <= MaxAlphabet) =>
        /\ Kraft(lengths, Len(freq))
        /\ \A L \in [1..Len(freq) -> 1..Len(freq)] :
              Kraft(L, Len(freq)) =>
                  WeightedLength(freq, lengths, 1) <= WeightedLength(freq, L, 1)

\* the codebook of a table of four symbols with unequal counts is built, the
\* rarest symbols getting the longest codewords
C15_Witness ==
    /\ phase = "built"
    /\ freq = <<0, 1, 2, 3>>
    /\ lengths = <<3, 3, 2, 1>>

\* C16: the words written with WriteUvarint, the writer being closed, are
\* returned by as many ReadUvarint calls, in order, and the reader's Err() is
\* nil after each of them.
C16_UvarintRoundTrip ==
    (phase = "reading" /\ kind = "uvarint") =>
        /\ out = SubSeq(set, 1, Len(out))
        /\ lastErr = "nil"
        /\ br.err = "nil"

\* 1 and 2^64 - 1 have been written and read back
C16_Witness ==
    /\ phase = "reading" /\ kind = "uvarint"
    /\ set = <<One64, Max64>>
    /\ out = set
    /\ Len(stream) = 11

\* C17: the words x with x + 1 < 2^64 written with WriteEliasDelta, the
\* writer being closed, are returned by as many ReadEliasDelta calls, in
\* order, with Err() nil, the bytes reaching the reader in one piece.
C17_EliasDeltaRoundTrip ==
    (kind = "eliasdelta" /\ phase # "written" /\ br.chunk = BufioSize) =>
        /\ phase = "reading"
        /\ out = SubSeq(set, 1, Len(out))
        /\ lastErr = "nil"

\* C18: NewDecompressor, Decompress and every Read return, with a result or
\* an error, for every finite stream of bytes, the streams whose codebook
\* header gives lengths that form no complete prefix code included.
C18_AlwaysReturns == kind = "forged" => phase # "hung"

\* the l bits of a byte sequence from bit p on, as a word
WordOfBits(s, p, l) == {i \in 0..(l - 1) : StreamBit(s, p + i) = 1}

\* C19: ReadBits(l), while at least l bits remain in the stream, returns the
\* next l bits of the stream and moves the read position on by exactly l
\* bits, whatever pieces the source hands its bytes out in.
C19_ReadBitsReturnsNextBits ==
    phase = "bits" =>
        /\ out[Len(out)] = WordOfBits(stream, bitpos - lastN, lastN)
        /\ 8 * br.pos - br.size = bitpos
        /\ br.err = "nil"

\* the bits of its stream a reader has not consumed yet
Unread(r) == 8 * (Len(r.data) - r.pos) + r.size

\* the less roomy of two PeekByte reports, and whether either hit the end
Narrower(a, b) ==
    [room |-> Min(a.room, b.room),
     err |-> IF a.err # "nil" THEN a.err ELSE b.err]

RECURSIVE LookupPeeks(_, _, _)
\* the PeekByte calls of one codeword lookup from page node on: the least
\* number of unread bits any of them found, and the error any of them left
LookupPeeks(tree, r, node) ==
    LET code == PeekByte(r)
        entry == tree[node + code.val + 1]
        here == [room |-> Unread(r), err |-> code.br.err]
    IN IF entry.skip # 0 \/ code.br.err # "nil" THEN here
       ELSE Narrower(here, LookupPeeks(tree, SkipBits(code.br, 8), entry.next))

RECURSIVE Peeks(_, _)
\* the same for the PeekByte calls of read(d, n)
Peeks(dd, n) ==
    IF n = 0 THEN [room |-> 64, err |-> "nil"]
    ELSE Narrower(LookupPeeks(dd.tree, dd.br, 0), Peeks(read(dd, 1).d, n - 1))

\* C20: while a stream written by CompressSorted for two or more elements
\* is decoded, the reader's error is nil after every Read, the Read that
\* checks the endmarker included, and every PeekByte call of the decoding
\* still to come returns without meeting the end of the input; when the
\* stream comes in one piece it finds at least 8 unread bits.
C20_LookaheadSafe ==
    (phase = "open" /\ kind = "valid" /\ Len(set) >= 2) =>
        /\ d.br.err = "nil"
        /\ (d.tree # <<>> /\ Remaining(d) # Zero64) =>
              /\ Peeks(d, NatOf(Remaining(d))).err = "nil"
              /\ d.br.chunk = BufioSize => Peeks(d, NatOf(Remaining(d))).room >= 8

\* three elements have been decoded from a stream that came in one piece,
\* through a prefix table, and the endmarker check has passed
C20_Witness ==
    /\ phase = "open" /\ kind = "valid"
    /\ Len(set) = 3 /\ out = set
    /\ d.tree # <<>>
    /\ d.br.chunk = BufioSize
    /\ Remaining(d) = Zero64
    /\ lastErr = "nil"
    /\ d.br.err = "nil"

\* the bytes of a bit sequence that starts with the codeword e and goes on
\* with 128 bits that are all zero (pad = Zero64) or all one (pad = Max64)
StartsWith(e, pad) ==
    Close(WriteBits(WriteBits(WriteBits(newBitWriter, e.code, e.length), pad, 64),
                    pad, 64)).sink

\* the lookup of read on such a bit sequence: the entry found, and the number
\* of bits consumed once the codeword is skipped
Walked(tree, data) ==
    LET look == LookupCode(tree, newBitReader(data, BufioSize), 0)
        after == SkipBits(look.br, look.entry.skip)
    IN [value |-> look.entry.value,
        bits |-> 8 * after.pos - after.size,
        err |-> after.err]

\* C21: for the prefix table unpackHuffmanTree builds from the header of a
\* codebook of two or more symbols, walking the 256-entry pages over a bit
\* sequence that starts with the codeword of symbol s finds the value s and
\* consumes exactly L(s) bits, whatever bits follow; every entry of the table
\* is a leaf with skip in 1..8 or a node that points at a later page.
C21_PrefixTableDecodes ==
    (phase = "tree" /\ Len(book) >= 2) =>
        /\ lastErr = "nil"
        /\ d.tree # <<>>
        /\ \A s \in 1..Len(book) : \A pad \in {Zero64, Max64} :
              Walked(d.tree, StartsWith(book[s], pad))
                  = [value |-> s - 1, bits |-> book[s].length, err |-> "nil"]
        /\ \A i \in 1..Len(d.tree) :
              \/ d.tree[i].skip \in 1..8
              \/ /\ d.tree[i].skip = 0
                 /\ d.tree[i].next >= 256
                 /\ d.tree[i].next % 256 = 0
                 /\ d.tree[i].next < Len(d.tree)

\* the prefix table of the codebook with the lengths 1, 2, ..., 63, 63 is
\* built: eight pages, the codeword of 63 bits of the last symbol ending on
\* the eighth
C21_Witness ==
    /\ phase = "tree"
    /\ lengths = Ladder
    /\ Len(d.tree) = 8 * 256
    /\ Walked(d.tree, StartsWith(book[64], Zero64)).bits = 63

\* C22: unpackCodeLengths applied to the bits Pack wrote for a codebook
\* buildHuffmanCode returned (1 to 64 symbols) returns the vector of that
\* codebook's lengths with no error, and canonicalHuffmanCode on that vector
\* gives the encoder's codewords, whatever pieces the header is read in.
C22_HeaderRoundTrip ==
    phase = "lengths" =>
        /\ lastErr = "nil"
        /\ out = lengths
        /\ canonicalHuffmanCode(out) = book

\* the header of a four-symbol codebook whose lengths fall from 3 to 1 has
\* been written and read back
C22_Witness ==
    /\ phase = "lengths"
    /\ freq = <<0, 1, 2, 3>>
    /\ out = <<3, 3, 2, 1>>
    /\ Len(stream) = 3
    /\ lastErr = "nil"

RECURSIVE KraftWithin(_, _, _)
\* the sum of 2^(63 - L[s]) over the symbols from s on, added to acc, never
\* exceeds 2^63: the sum of 2^-L[s] is at most 1 (every L[s] being in 1..63)
KraftWithin(L, s, acc) ==
    IF Less64({63}, acc) THEN FALSE
    ELSE IF s > Len(L) THEN TRUE
    ELSE KraftWithin(L, s + 1, Add64(acc, {63 - L[s]}))

\* the codeword a, as it is emitted, lowest bit first, is a prefix of b
PrefixOf(a, b) == a.length <= b.length /\ Low(b.code, a.length) = a.code

\* C27: the codewords buildHuffmanCode returns for a table of 2 to 64 symbols
\* form a prefix code: the sum of 2^-L(s) is at most 1, and no symbol's
\* codeword, as it is emitted, is a prefix of another symbol's codeword.
C27_PrefixCode ==
    (phase = "built" /\ Len(freq) >= 2) =>
        /\ \A s \in 1..Len(book) : book[s].length \in 1..63
        /\ KraftWithin(lengths, 1, Zero64)
        /\ \A a \in 1..Len(book) : \A b \in 1..Len(book) :
              a # b => ~PrefixOf(book[a], book[b])

\* the codebook of the 64 bitlengths counted once each is built: 64
\* codewords of 6 bits
C27_Witness ==
    /\ phase = "built"
    /\ freq = FlatTable
    /\ Len(book) = 64
    /\ \A s \in 1..64 : book[s].length = 6
    /\ book[1].code # book[2].code

\* C23: once Close() has returned, a WriteBits or WriteUvarint call is a
\* no-op: it does not panic, hands no bytes to the bufio.Writer or to the
\* io.Writer behind it, and leaves buf and offset as they were.
C23_WritesAfterCloseAreNoOps ==
    [][phase = "closed" =>
          /\ ~wr'.panic
          /\ wr'.buf = wr.buf
          /\ wr'.offset = wr.offset
          /\ wr'.pend = wr.pend
          /\ wr'.sink = wr.sink]_vars

\* C25: when the io.Writer has returned an error to a write or a flush,
\* CompressSorted returns a non-nil error, and so does the Close of a writer
\* used on its own; and once the bit writer has recorded an error, a later
\* call on it hands no further bytes to the io.Writer or to the bufio.Writer
\* in front of it.
C25_SinkErrorsReported ==
    /\ []((phase \in {"returned", "closed"} /\ wr.werr # "nil") =>
              (wr.err # "nil" /\ (phase = "returned" => lastErr = wr.err)))
    /\ [][(phase \in {"writing", "closed"} /\ wr.err # "nil") =>
              (wr'.sink = wr.sink /\ wr'.pend = wr.pend /\ wr'.err = wr.err)]_vars

\* CompressSorted has written a set of three elements to an io.Writer that
\* took three bytes and then failed, and has returned the error
C25_Witness ==
    /\ phase = "returned"
    /\ Len(set) = 3
    /\ wr.faulty /\ wr.room = 3
    /\ stream = SubSeq(CompressSorted(set).sink, 1, 3)
    /\ Len(CompressSorted(set).sink) > 3
    /\ lastErr = "sink"

RECURSIVE FieldBit(_, _, _)
\* bit p of the bit sequence made of the low l bits of the fields cs[i],
\* cs[i+1], ... laid end to end
FieldBit(cs, i, p) ==
    IF p < cs[i].l THEN (IF p \in cs[i].value THEN 1 ELSE 0)
    ELSE FieldBit(cs, i + 1, p - cs[i].l)

RECURSIVE FieldBits(_, _)
\* the number of bits of the fields cs[i], cs[i+1], ...
FieldBits(cs, i) == IF i > Len(cs) THEN 0 ELSE cs[i].l + FieldBits(cs, i + 1)

\* the calls made were WriteBits calls followed by one Close
FieldsThenClose(cs) ==
    /\ cs # <<>>
    /\ cs[Len(cs)].op = "Close"
    /\ \A i \in 1..(Len(cs) - 1) : cs[i].op = "WriteBits"

\* C26: the bits a writer emits for WriteBits(value, l) calls with l in 0..64
\* are the low l bits of each value, in order: once the writer is closed,
\* bit p of the bytes written is bit p of those fields laid end to end.
C26_AppendsLowBits ==
    (phase = "closed" /\ ~wr.faulty /\ FieldsThenClose(calls)) =>
        /\ 8 * Len(wr.sink) >= FieldBits(calls, 1)
        /\ \A p \in 0..(FieldBits(calls, 1) - 1) :
              StreamBit(wr.sink, p) = FieldBit(calls, 1, p)

\* the writer has not been closed, the last call on it was a WriteBits call,
\* and every WriteBits call so far had l in 0..64 and value < 2^l
FieldsFit(cs) ==
    /\ cs # <<>>
    /\ cs[Len(cs)].op \in {"WriteBits", "WriteWords"}
    /\ \A i \in 1..Len(cs) :
          /\ cs[i].op \in {"WriteBits", "WriteWords", "WriteUvarint"}
          /\ cs[i].op # "WriteUvarint" => Len64(cs[i].value) <= cs[i].l

\* offset is in 0..63 and every bit of buf at a position >= offset is zero
Accumulated(w) == w.offset \in 0..63 /\ \A i \in w.buf : i < w.offset

C24_ReaderErrorSticky ==
    [][(phase = "reading" /\ kind = "source" /\ br.err # "nil") =>
          br'.err = br.err]_vars

\* the slice holds its elements in ascending order
Ascending(s) == \A i \in 1..(Len(s) - 1) : ~Less64(s[i + 1], s[i])

\* the slices a and b hold the same elements, each as often
SameElements(a, b) ==
    /\ Len(a) = Len(b)
    /\ \A v \in Values :
         Cardinality({i \in 1..Len(a) : a[i] = v})
             = Cardinality({i \in 1..Len(b) : b[i] = v})

\* C28: when Compress returns, the slice the caller passed in holds the same
\* elements in ascending order; CompressSorted leaves its argument as it was
\* handed over, whether it returns or panics.
C28_CompressSortsInPlace ==
    (kind = "slice" /\ calls # <<>>) =>
        /\ (calls[1].fn = "Compress" /\ phase = "returned") =>
               (Ascending(set) /\ SameElements(set, calls[1].arg))
        /\ calls[1].fn = "CompressSorted" => set = calls[1].arg

\* Compress has returned from a slice of three elements handed over in
\* descending order, and CompressSorted's case is reached as well
C28_Witness ==
    /\ kind = "slice"
    /\ phase = "returned"
    /\ calls # <<>>
    /\ calls[1].fn = "Compress"
    /\ calls[1].arg = <<Max64, One64, Zero64>>
    /\ set = <<Zero64, One64, Max64>>

\* some number is on two lines of the file
Repeated(file) == \E i, j \in 1..Len(file) : i < j /\ file[i] = file[j]

\* C29: the command-line compressor ends with exit code 6, and without a
\* call on the codec, on every file of numbers in which some number is
\* repeated, wherever the two lines are.
C29_RepeatsRejected ==
    (kind = "file" /\ phase # "input"
        /\ (\A i \in 1..Len(set) : set[i] # Junk) /\ Repeated(set)) =>
        (phase = "exited" /\ exit = 6 /\ calls = <<>>)

====
